---- MODULE Spec2Model ----
(***************************************************************************)
(* A model of unpyc3.py, the Python 3.2 bytecode decompiler:               *)
(*   - Stack, the symbolic evaluation stack with identity counts;          *)
(*   - code_walker / Code / Address, the instruction and address model;    *)
(*   - the PyExpr node family and its rendering;                           *)
(*   - SuiteDecompiler, the recursive-descent suite reconstructor.         *)
(* Each part has its own specification over the shared variables; the      *)
(* variables a specification does not use stay at their idle value.        *)
(***************************************************************************)
EXTENDS Integers, Sequences, FiniteSets, TLC

VARIABLES
    stack,      \* SpecStack: the Stack object under test
    last,       \* SpecStack: the last call on it: name, argument, result, stack before
    code,       \* the Code object (the compiled unit) of SpecAddr and Spec
    acall,      \* SpecAddr: the last call on an Address of code: name, index, result
    tree,       \* SpecExpr: the expression object
    rendered,   \* SpecExpr: str(tree) once it has been taken, <<>> before
    frames,     \* Spec: the SuiteDecompiler objects whose run() is in progress
    heap,       \* Spec: the Unpack and ForStatement objects, by identity
    next_id,    \* Spec: the identity of the next object created
    status,     \* Spec: "running", "returned" or "raised" (get_suite)
    result      \* Spec: the suite get_suite returned

stackVars == <<stack, last>>
addrVars == <<acall>>
exprVars == <<tree, rendered>>
decVars == <<frames, heap, next_id, status, result>>
vars == <<stack, last, code, acall, tree, rendered, frames, heap, next_id, status, result>>

\* Python's None where an integer (an index, a count) is expected.
None == -1

----------------------------------------------------------------------------
(* Bounds of the model.                                                    *)

\* Objects that can be pushed in SpecStack.
NumObjs == 3
\* Largest evaluation stack SpecStack builds.
MaxStack == 3
\* Longest instruction sequence of the units of SpecAddr.
MaxInstrs == 3
\* Largest jump argument in the units of SpecAddr.
MaxArg == 4
\* Most operator nodes in an expression of SpecExpr.
MaxOps == 2
\* Most targets of an unpacking assignment in the units of Spec.
MaxTargets == 3

\* The most code objects around a decompiled unit.
MaxDepth == 2

\* The most decorators of a definition.
MaxDecorators == 2

\* The most typed except clauses of a try statement.
MaxClauses == 2

----------------------------------------------------------------------------
(* Helpers for Python lists.                                               *)

\* list.reverse()
RECURSIVE Reverse(_)
Reverse(s) ==
    IF s = <<>> THEN <<>> ELSE Append(Reverse(Tail(s)), Head(s))

\* s[:-1]
Front(s) == SubSeq(s, 1, Len(s) - 1)

\* s[-1]
Last(s) == s[Len(s)]

----------------------------------------------------------------------------
(* Expression nodes.  Every node is one Python object: id is its identity  *)
(* (what id(obj) returns), kind its class, name its name / value / opcode  *)
(* family member, args its children.                                       *)

Node(id, kind, name, args) ==
    [id |-> id, kind |-> kind, name |-> name, args |-> args]

----------------------------------------------------------------------------
(* class Stack                                                             *)

\* Stack.__init__
EmptyStack == [_stack |-> <<>>, _counts |-> [k \in {} |-> 0]]

\* Stack.get_count
get_count(s, obj) ==
    IF obj.id \in DOMAIN s._counts THEN s._counts[obj.id] ELSE 0

\* Stack.set_count
set_count(s, obj, val) ==
    IF val # 0
    THEN [s EXCEPT !._counts =
            [k \in (DOMAIN s._counts) \cup {obj.id} |->
                IF k = obj.id THEN val ELSE s._counts[k]]]
    ELSE [s EXCEPT !._counts =
            [k \in (DOMAIN s._counts) \ {obj.id} |-> s._counts[k]]]

\* Stack.__contains__
Contains(s, obj) == get_count(s, obj) > 0

\* Stack.__len__
StackLen(s) == Len(s._stack)

\* Stack.pop1: the new stack and the value; exc when list.pop() raises
\* IndexError on the empty list (nothing has changed then).
pop1(s) ==
    IF s._stack = <<>>
    THEN [s |-> s, val |-> None, exc |-> TRUE]
    ELSE LET val == Last(s._stack)
             s1 == [s EXCEPT !._stack = Front(s._stack)]
         IN  [s |-> set_count(s1, val, get_count(s1, val) - 1),
              val |-> val, exc |-> FALSE]

\* The list comprehension of Stack.pop: count calls of pop1, collected in call order.
\* An IndexError leaves the stack as the calls before it left it.
RECURSIVE pop_each(_, _, _)
pop_each(s, count, vals) ==
    IF count <= 0
    THEN [s |-> s, val |-> vals, exc |-> FALSE]
    ELSE LET r == pop1(s)
         IN  IF r.exc
             THEN [s |-> r.s, val |-> vals, exc |-> TRUE]
             ELSE pop_each(r.s, count - 1, Append(vals, r.val))

\* Stack.pop with the vals.reverse() dropped.
pop_unreversed(s, count) ==
    IF count = None THEN pop1(s) ELSE pop_each(s, count, <<>>)

\* Stack.pop
pop(s, count) ==
    IF count = None
    THEN pop1(s)
    ELSE LET r == pop_each(s, count, <<>>)
         IN  [r EXCEPT !.val = Reverse(r.val)]

\* Stack.push that appends without counting.
RECURSIVE push_uncounted(_, _)
push_uncounted(s, args) ==
    IF args = <<>> THEN s
    ELSE push_uncounted([s EXCEPT !._stack = Append(s._stack, Head(args))],
                        Tail(args))

\* Stack.push
RECURSIVE push(_, _)
push(s, args) ==
    IF args = <<>> THEN s
    ELSE LET val == Head(args)
             s1 == set_count(s, val, get_count(s, val) + 1)
         IN  push([s1 EXCEPT !._stack = Append(s1._stack, val)], Tail(args))

\* Python's list[-count:] for count >= 0: -0 is 0, so list[-0:] is the whole
\* list; a count beyond the length is clamped to the whole list.
SliceFromMinus(l, count) ==
    IF count = 0 \/ count >= Len(l)
    THEN l
    ELSE SubSeq(l, Len(l) - count + 1, Len(l))

\* Stack.peek: list[-1] raises IndexError on the empty list.
peek(s, count) ==
    IF count = None
    THEN IF s._stack = <<>>
         THEN [val |-> None, exc |-> TRUE]
         ELSE [val |-> Last(s._stack), exc |-> FALSE]
    ELSE [val |-> SliceFromMinus(s._stack, count), exc |-> FALSE]

----------------------------------------------------------------------------
(* Opcodes of Python 3.2 (opcode.opmap), put in the global namespace.      *)

HAVE_ARGUMENT == 90
POP_TOP == 1
ROT_TWO == 2
ROT_THREE == 3
DUP_TOP == 4
NOP == 9
GET_ITER == 68
WITH_CLEANUP == 81
RETURN_VALUE == 83
YIELD_VALUE == 86
POP_BLOCK == 87
END_FINALLY == 88
POP_EXCEPT == 89
UNPACK_SEQUENCE == 92
FOR_ITER == 93
UNPACK_EX == 94
STORE_GLOBAL == 97
DELETE_GLOBAL == 98
LOAD_CONST == 100
BUILD_LIST == 103
BUILD_SET == 104
BUILD_MAP == 105
COMPARE_OP == 107
JUMP_FORWARD == 110
JUMP_IF_FALSE_OR_POP == 111
JUMP_IF_TRUE_OR_POP == 112
JUMP_ABSOLUTE == 113
POP_JUMP_IF_FALSE == 114
POP_JUMP_IF_TRUE == 115
LOAD_GLOBAL == 116
CONTINUE_LOOP == 119
SETUP_LOOP == 120
SETUP_EXCEPT == 121
SETUP_FINALLY == 122
LOAD_FAST == 124
STORE_FAST == 125
DELETE_FAST == 126
RAISE_VARARGS == 130
CALL_FUNCTION == 131
MAKE_FUNCTION == 132
STORE_DEREF == 137
DELETE_DEREF == 138
SETUP_WITH == 143
LIST_APPEND == 145
SET_ADD == 146
MAP_ADD == 147

\* dis.hasjrel
hasjrel == {FOR_ITER, JUMP_FORWARD, SETUP_LOOP, SETUP_EXCEPT, SETUP_FINALLY,
            SETUP_WITH}

\* dis.hasjabs
hasjabs == {JUMP_IF_FALSE_OR_POP, JUMP_IF_TRUE_OR_POP, JUMP_ABSOLUTE,
            POP_JUMP_IF_FALSE, POP_JUMP_IF_TRUE, CONTINUE_LOOP}

\* The members of stmt_opcodes among the opcodes above.
stmt_opcodes == {SETUP_LOOP, CONTINUE_LOOP, SETUP_FINALLY, SETUP_EXCEPT,
                 SETUP_WITH, POP_BLOCK, STORE_FAST, STORE_DEREF,
                 DELETE_DEREF, STORE_GLOBAL, DELETE_GLOBAL, RETURN_VALUE,
                 YIELD_VALUE, RAISE_VARARGS, POP_TOP}

pop_jump_if_opcodes == {POP_JUMP_IF_TRUE, POP_JUMP_IF_FALSE}

\* else_jump_opcodes with POP_TOP added.
else_jump_opcodes_and_pop_top ==
    {JUMP_FORWARD, RETURN_VALUE, JUMP_ABSOLUTE, SETUP_LOOP, RAISE_VARARGS, POP_TOP}

else_jump_opcodes == {JUMP_FORWARD, RETURN_VALUE, JUMP_ABSOLUTE, SETUP_LOOP,
                      RAISE_VARARGS}

----------------------------------------------------------------------------
(* code_walker and class Code                                              *)

\* An exception raised where an address or an index was expected.
Raised == None - 1

\* One decoded instruction: (addr, (opcode, arg)).
Instr(addr, opcode, arg) == [addr |-> addr, opcode |-> opcode, arg |-> arg]

\* code_walker that takes the low byte alone for the argument.
code_walker_low_byte(bytes, i) ==
    LET \* One turn of the while loop; w.i is i, w.seq what was yielded so far.
        turn(w) ==
            IF w.stop \/ ~(w.i < Len(bytes))
            THEN [w EXCEPT !.stop = TRUE]
            ELSE LET op == bytes[w.i + 1]
                 IN  IF op >= HAVE_ARGUMENT
                     THEN IF w.i + 2 < Len(bytes)
                          THEN [i |-> w.i + 3, stop |-> FALSE,
                                seq |-> Append(w.seq, Instr(w.i, op, bytes[w.i + 2]))]
                          ELSE [w EXCEPT !.stop = TRUE]
                     ELSE [i |-> w.i + 1, stop |-> FALSE,
                           seq |-> Append(w.seq, Instr(w.i, op, None))]
        \* n turns in a row, split in halves.
        RECURSIVE turns(_, _)
        turns(w, n) ==
            IF w.stop \/ n <= 1 THEN turn(w)
            ELSE turns(turns(w, n \div 2), n - n \div 2)
    IN  turns([i |-> i, stop |-> FALSE, seq |-> <<>>], Len(bytes) - i).seq

\* code_walker from byte i on (bytes are 0-based in Python: code[i] is bytes[i+1]).
\* The walk stops where an argument byte is missing (see code_walker_raises); it
\* takes at most one turn for each byte.
code_walker_from(bytes, i) ==
    LET \* One turn of the while loop; w.i is i, w.seq what was yielded so far.
        turn(w) ==
            IF w.stop \/ ~(w.i < Len(bytes))
            THEN [w EXCEPT !.stop = TRUE]
            ELSE LET op == bytes[w.i + 1]
                 IN  IF op >= HAVE_ARGUMENT
                     THEN IF w.i + 2 < Len(bytes)
                          THEN [i |-> w.i + 3, stop |-> FALSE,
                                seq |-> Append(w.seq, Instr(w.i, op, bytes[w.i + 2] + bytes[w.i + 3] * 256))]
                          ELSE [w EXCEPT !.stop = TRUE]
                     ELSE [i |-> w.i + 1, stop |-> FALSE,
                           seq |-> Append(w.seq, Instr(w.i, op, None))]
        \* n turns in a row, split in halves.
        RECURSIVE turns(_, _)
        turns(w, n) ==
            IF w.stop \/ n <= 1 THEN turn(w)
            ELSE turns(turns(w, n \div 2), n - n \div 2)
    IN  turns([i |-> i, stop |-> FALSE, seq |-> <<>>], Len(bytes) - i).seq

\* code_walker
code_walker(bytes) == code_walker_from(bytes, 0)

\* Whether the walk raises IndexError: code[i+1] or code[i+2] is read past the
\* end for an argument-bearing opcode in the last two bytes.
code_walker_raises(bytes) ==
    LET seq == code_walker(bytes)
        end == IF seq = <<>> THEN 0
               ELSE Last(seq).addr + (IF Last(seq).arg = None THEN 1 ELSE 3)
    IN  end < Len(bytes)

\* The instr_map of Code.__init__: position -> index.
InstrMap(instr_seq) ==
    [a \in { instr_seq[i].addr : i \in DOMAIN instr_seq } |->
        (CHOOSE i \in DOMAIN instr_seq : instr_seq[i].addr = a) - 1]

\* Code.__getitem__ without the test 0 <= instr_index: a negative index counts
\* from the end, as instr_seq[instr_index] does.
CodeGetItem_from_end(c, instr_index) ==
    IF instr_index < Len(c.instr_seq)
    THEN IF instr_index < 0 THEN instr_index + Len(c.instr_seq) ELSE instr_index
    ELSE None

\* Code.__getitem__: the Address of an index is the index itself, None outside.
CodeGetItem(c, instr_index) ==
    IF 0 <= instr_index /\ instr_index < Len(c.instr_seq)
    THEN instr_index
    ELSE None

\* Code.address: instr_map[addr] raises KeyError for a position that starts
\* no instruction.
CodeAddress(c, addr) ==
    IF addr \in DOMAIN c.instr_map
    THEN CodeGetItem(c, c.instr_map[addr])
    ELSE Raised

----------------------------------------------------------------------------
(* class Address: an Address of the unit is its instruction index.         *)

IsAddr(a) == a # None /\ a # Raised

\* Address.addr, Address.opcode, Address.arg
AddrPos(c, a) == c.instr_seq[a + 1].addr
Opcode(c, a) == c.instr_seq[a + 1].opcode
Arg(c, a) == c.instr_seq[a + 1].arg

\* Address.__getitem__; on None it raises (None has no __getitem__).
AddrGetItem(c, a, index) ==
    IF IsAddr(a) THEN CodeGetItem(c, a + index) ELSE Raised

\* Address.__add__; on None it raises.
AddrAdd(c, a, delta) ==
    IF IsAddr(a) THEN CodeAddress(c, AddrPos(c, a) + delta) ELSE Raised

\* The attribute a.opcode; an AttributeError (a is None) reads as Raised.
OpcodeOf(c, a) == IF IsAddr(a) THEN Opcode(c, a) ELSE Raised

\* Address.jump that adds the offset to the jump's own position.
jump_from_self(c, a) ==
    IF ~IsAddr(a) THEN Raised
    ELSE IF Opcode(c, a) \in hasjrel
    THEN AddrAdd(c, a, Arg(c, a))
    ELSE IF Opcode(c, a) \in hasjabs
    THEN CodeAddress(c, Arg(c, a))
    ELSE None

\* Address.jump
jump(c, a) ==
    IF ~IsAddr(a) THEN Raised
    ELSE IF Opcode(c, a) \in hasjrel
    THEN AddrAdd(c, AddrGetItem(c, a, 1), Arg(c, a))
    ELSE IF Opcode(c, a) \in hasjabs
    THEN CodeAddress(c, Arg(c, a))
    ELSE None

\* Address.__lt__ (other may be None)
AddrLt(a, other) == other = None \/ a < other

----------------------------------------------------------------------------
(* Code.find_else and Code.__init__                                        *)

\* The loop of Code.find_else from index i on; jumps is the dict (a function
\* from indices to indices).  exc: self.address(arg) raised KeyError, or
\* jump_addr[-1] was None and reading its opcode raised AttributeError.
find_else_from(c, i, jumps, last_jump) ==
    LET \* The body of the for loop at index k; st.exc once an exception was raised.
        body(k, st) ==
            LET opcode == Opcode(c, k)
                arg == Arg(c, k)
            IN  IF st.exc \/ k >= Len(c.instr_seq)
                THEN st
                ELSE IF opcode \in pop_jump_if_opcodes
                THEN LET jump_addr == CodeAddress(c, arg)
                     IN  IF ~IsAddr(jump_addr) \/ ~IsAddr(AddrGetItem(c, jump_addr, -1))
                         THEN [st EXCEPT !.exc = TRUE]
                         ELSE IF \/ Opcode(c, AddrGetItem(c, jump_addr, -1))
                                        \in else_jump_opcodes
                                 \/ Opcode(c, jump_addr) = FOR_ITER
                         THEN [exc |-> FALSE, jumps |-> (jump_addr :> k) @@ st.jumps,
                               last_jump |-> k]
                         ELSE st
                ELSE IF opcode = JUMP_ABSOLUTE
                THEN LET jump_addr == CodeAddress(c, arg)
                     IN  IF ~IsAddr(jump_addr)
                         THEN [st EXCEPT !.exc = TRUE]
                         ELSE IF jump_addr \in DOMAIN st.jumps
                         THEN [st EXCEPT !.jumps = (k :> st.jumps[jump_addr]) @@ st.jumps]
                         ELSE st
                ELSE IF opcode \in stmt_opcodes /\ st.last_jump # None
                THEN [st EXCEPT !.jumps = (k :> st.last_jump) @@ st.jumps]
                ELSE st
        \* The turns of the loop for the indices lo .. hi - 1, split in halves.
        RECURSIVE turns(_, _, _)
        turns(lo, hi, st) ==
            IF st.exc \/ hi <= lo + 1 THEN body(lo, st)
            ELSE turns((lo + hi) \div 2, hi, turns(lo, (lo + hi) \div 2, st))
        r == turns(i, Len(c.instr_seq), [exc |-> FALSE, jumps |-> jumps,
                                         last_jump |-> last_jump])
    IN  [exc |-> r.exc, jumps |-> r.jumps]

\* Code.find_else: exc, or the value of self.else_jumps.
find_else(c) ==
    LET r == find_else_from(c, 0, [k \in {} |-> 0], None)
    IN  [exc |-> r.exc, else_jumps |-> { r.jumps[k] : k \in DOMAIN r.jumps }]

\* A code object without cell and free variables: co_code, co_names,
\* co_varnames, co_consts and co_name.  A
\* constant is the record of its repr and, when it is a code object itself,
\* of that code object: [repr |-> "None", code |-> <<>>] or
\* [repr |-> "<code object f>", code |-> <<the code object>>].
CodeObj(co_code, co_names, co_varnames, co_consts, co_name) ==
    [co_code |-> co_code, co_names |-> co_names, co_varnames |-> co_varnames,
     co_consts |-> co_consts, co_name |-> co_name,
     co_cellvars |-> <<>>, co_freevars |-> <<>>]

\* Code.__init__ up to the call of find_else, for parent = None.  The PyName
\* and PyConst objects of the tables are created here, once: they get the
\* first identities.  A PyConst keeps repr(val) in name and a val that is a
\* code object in args.
CodeTables(code_obj) ==
    LET nv == Len(code_obj.co_varnames)
        nc == Len(code_obj.co_consts)
        instr_seq == code_walker(code_obj.co_code)
    IN  [kind |-> "Code",
         code_obj |-> code_obj,
         parent |-> None,
         varnames |-> [i \in 1..nv |->
                          Node(i, "PyName", code_obj.co_varnames[i], <<>>)],
         consts |-> [i \in 1..nc |->
                          Node(nv + i, "PyConst", code_obj.co_consts[i].repr,
                               code_obj.co_consts[i].code)],
         names |-> [i \in 1..Len(code_obj.co_names) |->
                          Node(nv + nc + i, "PyName", code_obj.co_names[i], <<>>)],
         derefnames |->
             [i \in 1..Len(code_obj.co_cellvars \o code_obj.co_freevars) |->
                 Node(nv + nc + Len(code_obj.co_names) + i, "PyName",
                      (code_obj.co_cellvars \o code_obj.co_freevars)[i], <<>>)],
         instr_seq |-> instr_seq,
         instr_map |-> InstrMap(instr_seq),
         name |-> code_obj.co_name,
         globals |-> <<>>,
         nonlocals |-> <<>>,
         else_jumps |-> {}]

\* Whether Code(code_obj) returns: neither code_walker nor find_else raises.
CodeConstructs(code_obj) ==
    /\ ~code_walker_raises(code_obj.co_code)
    /\ ~find_else(CodeTables(code_obj)).exc

\* Code.__init__
Code(code_obj) ==
    [CodeTables(code_obj) EXCEPT !.else_jumps = find_else(CodeTables(code_obj)).else_jumps]

\* Address.change_instr on the Address of index i of c
change_instr(c, i, opcode, arg) ==
    [c EXCEPT !.instr_seq[i + 1] = [@ EXCEPT !.opcode = opcode, !.arg = arg]]

\* code_map; a name that is not a key makes a DefStatement.
code_map(name) ==
    CASE name = "<lambda>" -> "PyLambda"
      [] name = "<listcomp>" -> "PyListComp"
      [] name = "<setcomp>" -> "PySetComp"
      [] name = "<dictcomp>" -> "PyDictComp"
      [] name = "<genexpr>" -> "PyGenExpr"
      [] OTHER -> "DefStatement"

\* The subclasses of PyComp.
PyCompKinds == {"PyListComp", "PySetComp", "PyDictComp", "PyGenExpr"}

\* PyComp.__init__ that every subclass of PyComp runs, PyGenExpr too.
PyComp_init_always(c, kind, defaults) ==
    IF defaults # <<>> \/ c.instr_seq = <<>>
    THEN [exc |-> TRUE, code |-> c]
    ELSE [exc |-> FALSE,
          code |-> change_instr(change_instr(c, 0, NOP, None),
                                Len(c.instr_seq) - 1, NOP, None)]

\* PyComp.__init__ that replaces every instruction by NOP.
PyComp_init_every_instr(c, kind, defaults) ==
    IF kind = "PyGenExpr" THEN [exc |-> FALSE, code |-> c]
    ELSE IF defaults # <<>> \/ c.instr_seq = <<>>
    THEN [exc |-> TRUE, code |-> c]
    ELSE [exc |-> FALSE,
          code |-> [c EXCEPT !.instr_seq =
                       [i \in DOMAIN c.instr_seq |->
                           [c.instr_seq[i] EXCEPT !.opcode = NOP, !.arg = None]]]]

\* __init__ of the subclass kind of PyComp on the code c: PyGenExpr has its
\* own, which only keeps the code; the others run PyComp.__init__, which
\* asserts that there are no defaults and replaces code[0] and
\* code[len(code.instr_seq) - 1] by NOP (code[0] is None for a code without
\* instructions, and None has no change_instr).  exc: it raised.
PyComp_init(c, kind, defaults) ==
    IF kind = "PyGenExpr" THEN [exc |-> FALSE, code |-> c]
    ELSE IF defaults # <<>> \/ c.instr_seq = <<>>
    THEN [exc |-> TRUE, code |-> c]
    ELSE [exc |-> FALSE,
          code |-> change_instr(change_instr(c, 0, NOP, None),
                                Len(c.instr_seq) - 1, NOP, None)]

\* Address.is_else_jump
is_else_jump(c, a) == a \in c.else_jumps

----------------------------------------------------------------------------
(* The PyExpr family.  kind is the class; a PyName or PyConst keeps its     *)
(* name or the repr of its value in name; args are the operands, for a      *)
(* PyCompare its complist (operands and operator strings alternating, an    *)
(* operator string s being the node CmpOp(s)).  Text is a sequence of       *)
(* tokens.                                                                  *)

\* unary_ops: (opcode suffix, class, pattern, precedence); the pattern is kept
\* as its operator token, which precedes the operand.
unary_ops ==
    << [op |-> "UNARY_POSITIVE", kind |-> "PyPositive", ptn |-> "+", prec |-> 13],
       [op |-> "UNARY_NEGATIVE", kind |-> "PyNegative", ptn |-> "-", prec |-> 13],
       [op |-> "UNARY_NOT", kind |-> "PyNot", ptn |-> "not", prec |-> 5],
       [op |-> "UNARY_INVERT", kind |-> "PyInvert", ptn |-> "~", prec |-> 13] >>

\* binary_ops (SUBSCR apart): the pattern is kept as its operator token, which
\* stands between the operands.
binary_ops ==
    << [op |-> "POWER", kind |-> "PyPower", ptn |-> "**", prec |-> 14],
       [op |-> "MULTIPLY", kind |-> "PyMultiply", ptn |-> "*", prec |-> 12],
       [op |-> "FLOOR_DIVIDE", kind |-> "PyFloorDivide", ptn |-> "//", prec |-> 12],
       [op |-> "TRUE_DIVIDE", kind |-> "PyTrueDivide", ptn |-> "/", prec |-> 12],
       [op |-> "MODULO", kind |-> "PyModulo", ptn |-> "%", prec |-> 12],
       [op |-> "ADD", kind |-> "PyAdd", ptn |-> "+", prec |-> 11],
       [op |-> "SUBTRACT", kind |-> "PySubtract", ptn |-> "-", prec |-> 11],
       [op |-> "LSHIFT", kind |-> "PyLeftShift", ptn |-> "<<", prec |-> 10],
       [op |-> "RSHIFT", kind |-> "PyRightShift", ptn |-> ">>", prec |-> 10],
       [op |-> "AND", kind |-> "PyAnd", ptn |-> "&", prec |-> 9],
       [op |-> "XOR", kind |-> "PyXor", ptn |-> "^", prec |-> 8],
       [op |-> "OR", kind |-> "PyOr", ptn |-> "|", prec |-> 7],
       [op |-> "", kind |-> "PyBooleanAnd", ptn |-> "and", prec |-> 4],
       [op |-> "", kind |-> "PyBooleanOr", ptn |-> "or", prec |-> 3] >>

\* The classes made from unary_ops, and the PyBinaryOp subclasses.
UnaryKinds == { unary_ops[i].kind : i \in DOMAIN unary_ops }
BinaryKinds == { binary_ops[i].kind : i \in DOMAIN binary_ops }

UnaryOf(kind) == unary_ops[CHOOSE i \in DOMAIN unary_ops : unary_ops[i].kind = kind]
BinaryOf(kind) == binary_ops[CHOOSE i \in DOMAIN binary_ops : binary_ops[i].kind = kind]

\* An operator string of a complist.
CmpOp(s) == Node(0, "cmp_op", s, <<>>)

\* The class attribute precedence.
precedence(x) ==
    CASE x.kind \in {"PyConst", "PyName"} -> 100
      [] x.kind = "PyTuple" -> 0
      [] x.kind \in UnaryKinds -> UnaryOf(x.kind).prec
      [] x.kind \in BinaryKinds -> BinaryOf(x.kind).prec
      [] x.kind = "PyCompare" -> 6
      [] x.kind = "PyIfElse" -> 2
      [] x.kind \in {"PyStarred", "PyCallFunction"} -> 15
      [] x.kind \in PyCompKinds -> 16
      [] x.kind = "PyLambda" -> 1

\* Python's sep.join(strs) on token sequences; sep is <<",">> for ", " and
\* <<>> for " ", which is no token.
RECURSIVE JoinTokens(_, _)
JoinTokens(sep, strs) ==
    IF strs = <<>> THEN <<>>
    ELSE IF Len(strs) = 1 THEN strs[1]
    ELSE strs[1] \o sep \o JoinTokens(sep, Tail(strs))

\* PyExpr.wrap applied to the text of self.
wrap(text, condition) ==
    IF condition THEN <<"(">> \o text \o <<")">> ELSE text

\* PyBinaryOp.wrap_left, given the text and the precedence of self.left.
wrap_left(text, left_precedence, self_precedence) ==
    wrap(text, left_precedence < self_precedence)

\* PyBinaryOp.wrap_right, given the text and the precedence of self.right.
wrap_right(text, right_precedence, self_precedence) ==
    wrap(text, right_precedence <= self_precedence)

\* __str__ of each class.
RECURSIVE Str(_)
Str(x) ==
    CASE x.kind \in {"PyConst", "PyName", "cmp_op"} -> <<x.name>>
      [] x.kind = "PyTuple" ->
            IF x.args = <<>> THEN <<"(", ")">>
            ELSE LET valstr == [i \in DOMAIN x.args |->
                                  wrap(Str(x.args[i]),
                                       precedence(x.args[i]) <= precedence(x))]
                 IN  IF Len(valstr) = 1 THEN valstr[1] \o <<",">>
                     ELSE JoinTokens(<<",">>, valstr)
      [] x.kind \in UnaryKinds ->
            <<UnaryOf(x.kind).ptn>>
                \o wrap(Str(x.args[1]), precedence(x.args[1]) < precedence(x))
      [] x.kind \in BinaryKinds ->
            wrap_left(Str(x.args[1]), precedence(x.args[1]), precedence(x))
                \o <<BinaryOf(x.kind).ptn>>
                \o wrap_right(Str(x.args[2]), precedence(x.args[2]), precedence(x))
      [] x.kind = "PyCompare" ->
            JoinTokens(<<>>,
                [i \in DOMAIN x.args |->
                    IF (i - 1) % 2 = 1 THEN Str(x.args[i])
                    ELSE wrap(Str(x.args[i]), precedence(x.args[i]) <= 0)])
      [] x.kind = "PyIfElse" ->
            LET p == precedence(x)
                cond == x.args[1]
                cond_str == wrap(Str(cond), precedence(cond) <= p)
                true_str == wrap(Str(x.args[2]), precedence(cond) <= p)
                false_str == wrap(Str(x.args[3]), precedence(cond) < p)
            IN  true_str \o <<"if">> \o cond_str \o <<"else">> \o false_str
      [] x.kind = "PyStarred" ->
            <<"*">> \o wrap(Str(x.args[1]), precedence(x.args[1]) < precedence(x))
      [] x.kind = "PyCallFunction" ->
            LET func == x.args[1]
                funcstr == wrap(Str(func), precedence(func) < precedence(x))
                posargs == Tail(x.args)
            IN  IF Len(posargs) = 1 /\ posargs[1].kind = "PyGenExpr"
                THEN funcstr \o Str(posargs[1])
                ELSE funcstr \o <<"(">>
                     \o JoinTokens(<<",">>,
                            [i \in DOMAIN posargs |->
                                wrap(Str(posargs[i]), precedence(posargs[i]) <= 0)])
                     \o <<")">>
      [] OTHER -> <<"<" \o x.kind \o " object>">>     \* object.__repr__

\* The node constructors.
PyName(id, name) == Node(id, "PyName", name, <<>>)
PyConst(id, val) == Node(id, "PyConst", val, <<>>)
PyTuple(id, values) == Node(id, "PyTuple", "", values)
PyUnaryOp(id, kind, operand) == Node(id, kind, "", <<operand>>)
PyBinaryOp(id, kind, left, right) == Node(id, kind, "", <<left, right>>)
PyCompare(id, complist) == Node(id, "PyCompare", "", complist)
PyBooleanAnd(id, left, right) == PyBinaryOp(id, "PyBooleanAnd", left, right)
PyBooleanOr(id, left, right) == PyBinaryOp(id, "PyBooleanOr", left, right)
PyNot(id, operand) == PyUnaryOp(id, "PyNot", operand)
PyIfElse(id, cond, true_expr, false_expr) ==
    Node(id, "PyIfElse", "", <<cond, true_expr, false_expr>>)
PyStarred(id, expr) == Node(id, "PyStarred", "", <<expr>>)

\* __eq__: PyConst and PyName compare their value or name, every other class
\* inherits object.__eq__, which is identity.
PyEq(x, y) ==
    IF x.kind = "PyConst" THEN y.kind = "PyConst" /\ x.name = y.name
    ELSE IF x.kind = "PyName" THEN y.kind = "PyName" /\ x.name = y.name
    ELSE x.id = y.id

\* PyCompare.extends
extends(self, other) ==
    IF other.kind # "PyCompare" THEN FALSE
    ELSE PyEq(self.args[1], Last(other.args))

\* PyCompare.chain
chain(id, self, other) == PyCompare(id, self.args \o Tail(other.args))

----------------------------------------------------------------------------
(* Statements, suites and the objects with a store() of their own.         *)

\* A statement object: kind is its class, text the line of a
\* SimpleStatement, exprs its expressions, suites its sub-suites.
\* A Suite is the sequence of its statements.
Stmt(kind, text, exprs, suites) ==
    [kind |-> kind, text |-> text, exprs |-> exprs, suites |-> suites]

SimpleStatement(val) == Stmt("SimpleStatement", val, <<>>, <<>>)
AssignStatement(targets) == Stmt("AssignStatement", <<>>, targets, <<>>)
IfStatement(cond, true_suite, false_suite) ==
    Stmt("IfStatement", <<>>, <<cond>>, <<true_suite, false_suite>>)
WhileStatement(cond, body) == Stmt("WhileStatement", <<>>, <<cond>>, <<body>>)

\* The fields of a mutable object, kept in heap under its identity: an Unpack
\* (val, length, star_index, dests) or a ForStatement (val is its iterable,
\* dests holds its dest once store() has set it).
Obj(kind, val, length, star_index, dests) ==
    [kind |-> kind, val |-> val, length |-> length, star_index |-> star_index,
     dests |-> dests]

\* Unpack.__init__
Unpack(val, length, star_index) == Obj("Unpack", val, length, star_index, <<>>)

\* ForStatement.__init__
ForStatement(iterable) == Obj("ForStatement", iterable, None, None, <<>>)

\* WithStatement.__init__: val is with_expr, dests holds with_name once set.
WithStatement(with_expr) == Obj("WithStatement", with_expr, None, None, <<>>)

\* TryStatement.__init__; next_start_except is empty until COMPARE_OP sets
\* it.  A clause is [type, name, suite], type and name empty for None.
TryStatement(try_suite) ==
    [kind |-> "TryStatement", try_suite |-> try_suite, except_clauses |-> <<>>,
     next_start_except |-> <<>>]

\* TryStatement.add_except_clause
add_except_clause(self, type, suite) ==
    [self EXCEPT !.except_clauses = Append(@, [type |-> type, name |-> <<>>,
                                                suite |-> suite])]

\* The fields of a DefStatement, kept in heap: code is the identity of its
\* Code object, name is empty until store() sets it.
DefStatement(code_id, defaults) ==
    [kind |-> "DefStatement", code |-> code_id, defaults |-> defaults,
     decorators |-> <<>>, name |-> <<>>]

\* The reference to the object of identity id, as it lies on a Stack.
Ref(id, kind) == Node(id, kind, "", <<>>)

\* A ForStatement as a statement of a suite, once its body is set.
ForStatementOf(obj, body) == Stmt("ForStatement", <<>>, obj.dests \o <<obj.val>>, <<body>>)

\* A TryStatement as a statement of a suite: text tells the form of each
\* clause as display chooses it, exprs holds the types and names of the
\* clauses in order, suites the try suite and then the suites of the clauses.
RECURSIVE ClauseExprs(_)
ClauseExprs(clauses) ==
    IF clauses = <<>> THEN <<>>
    ELSE Head(clauses).type \o Head(clauses).name \o ClauseExprs(Tail(clauses))

TryStatementOf(obj) ==
    Stmt("TryStatement",
         [i \in DOMAIN obj.except_clauses |->
             IF obj.except_clauses[i].type = <<>> THEN "except:"
             ELSE IF obj.except_clauses[i].name = <<>> THEN "except {}:"
             ELSE "except {} as {}:"],
         ClauseExprs(obj.except_clauses),
         <<obj.try_suite>> \o [i \in DOMAIN obj.except_clauses |->
                                  obj.except_clauses[i].suite])

\* A WithStatement as a statement of a suite, once its suite is set: text
\* tells whether with_name is set.
WithStatementOf(obj, body) ==
    Stmt("WithStatement", IF obj.dests = <<>> THEN <<>> ELSE <<"as">>,
         <<obj.val>> \o obj.dests, <<body>>)

----------------------------------------------------------------------------
(* class SuiteDecompiler.  A handler works on the context d of the          *)
(* decompiler that runs it: stack, suite, chain (assignment_chain), popjump *)
(* (popjump_stack), the heap and the next free identity; it sets exc when   *)
(* it raises, ret to what it returns, and sub to the sub-decompiler it      *)
(* starts, if any.                                                          *)

\* SuiteDecompiler.END_NOW
END_NOW == None - 2

Raise(d) == [d EXCEPT !.exc = TRUE]
Return(d, new_addr) == [d EXCEPT !.ret = new_addr]

\* SuiteDecompiler.write, the template already formatted.
write(d, line) == [d EXCEPT !.suite = Append(@, SimpleStatement(line))]

\* The classes whose store() and on_pop() are those of PyExpr.
IsPyExpr(x) ==
    x.kind \notin {"Unpack", "ForStatement", "DefStatement", "WithStatement", "TryStatement"}

\* PyExpr.store without the test of the stack: every store completes the
\* statement.
PyExpr_store_at_once(d, self, dest) ==
    [d EXCEPT !.suite = Append(@, AssignStatement(Append(Append(d.chain, dest), self))),
              !.chain = <<>>]

\* PyExpr.store
PyExpr_store(d, self, dest) ==
    LET targets == Append(d.chain, dest)
    IN  IF ~Contains(d.stack, self)
        THEN [d EXCEPT !.suite = Append(@, AssignStatement(Append(targets, self))),
                       !.chain = <<>>]
        ELSE [d EXCEPT !.chain = targets]

\* ForStatement.store
ForStatement_store(d, self, dest) ==
    [d EXCEPT !.heap[self.id].dests = <<dest>>]

\* WithStatement.store
WithStatement_store(d, self, dest) ==
    [d EXCEPT !.heap[self.id].dests = <<dest>>]

\* TryStatement.store that sets the name of the first clause.
TryStatement_store_first(d, self, dest) ==
    IF d.heap[self.id].except_clauses = <<>> THEN Raise(d)
    ELSE [d EXCEPT !.heap[self.id].except_clauses[1].name = <<dest>>]

\* TryStatement.store: self.except_clauses[-1][1] = dest
TryStatement_store(d, self, dest) ==
    IF d.heap[self.id].except_clauses = <<>> THEN Raise(d)
    ELSE [d EXCEPT !.heap[self.id].except_clauses[Len(d.heap[self.id].except_clauses)].name =
                       <<dest>>]

\* DefStatement.store
DefStatement_store(d, self, dest) ==
    [d EXCEPT !.heap[self.id].name = <<dest>>,
              !.suite = Append(@, Stmt("DefStatement", <<>>, <<self>>, <<>>))]

\* Unpack.store that takes the accumulator for complete one store early.
RECURSIVE store(_, _)
Unpack_store_early(d, self, dest) ==
    LET u == d.heap[self.id]
        starred == Len(u.dests) = u.star_index
        dest1 == IF starred THEN PyStarred(d.next_id, dest) ELSE dest
        dests == Append(u.dests, dest1)
        d1 == [d EXCEPT !.heap[self.id].dests = dests,
                        !.next_id = IF starred THEN @ + 1 ELSE @]
    IN  IF Len(dests) + 1 >= u.length
        THEN store([d1 EXCEPT !.stack = push(d1.stack, <<u.val>>),
                              !.next_id = @ + 1],
                   PyTuple(d1.next_id, dests))
        ELSE d1

\* Unpack.store
Unpack_store(d, self, dest) ==
    LET u == d.heap[self.id]
        starred == Len(u.dests) = u.star_index
        dest1 == IF starred THEN PyStarred(d.next_id, dest) ELSE dest
        dests == Append(u.dests, dest1)
        d1 == [d EXCEPT !.heap[self.id].dests = dests,
                        !.next_id = IF starred THEN @ + 1 ELSE @]
    IN  IF Len(dests) = u.length
        THEN store([d1 EXCEPT !.stack = push(d1.stack, <<u.val>>),
                              !.next_id = @ + 1],
                   PyTuple(d1.next_id, dests))
        ELSE d1

\* SuiteDecompiler.store: val = self.stack.pop(); val.store(self, dest)
store(d, dest) ==
    LET r == pop(d.stack, None)
        d1 == [d EXCEPT !.stack = r.s]
    IN  IF r.exc THEN Raise(d)
        ELSE IF r.val.kind = "Unpack" THEN Unpack_store(d1, r.val, dest)
        ELSE IF r.val.kind = "ForStatement" THEN ForStatement_store(d1, r.val, dest)
        ELSE IF r.val.kind = "DefStatement" THEN DefStatement_store(d1, r.val, dest)
        ELSE IF r.val.kind = "WithStatement" THEN WithStatement_store(d1, r.val, dest)
        ELSE IF r.val.kind = "TryStatement" THEN TryStatement_store(d1, r.val, dest)
        ELSE PyExpr_store(d1, r.val, dest)

\* One entry of popjump_stack: (truthiness, addr, cond).
PopJump(truthiness, addr, cond) ==
    [truthiness |-> truthiness, addr |-> addr, cond |-> cond]

\* The while loop of push_popjump with the test turned round: it pops while
\* jaddr is at or before the address of the top entry.
RECURSIVE push_popjump_loop_while_before(_, _, _, _)
push_popjump_loop_while_before(pjstack, jaddr, jcond, id) ==
    IF pjstack = <<>>
    THEN [popjump |-> pjstack, jcond |-> jcond, next_id |-> id, exc |-> FALSE]
    ELSE LET top == Last(pjstack)
         IN  IF jaddr = None
             THEN [popjump |-> pjstack, jcond |-> jcond, next_id |-> id, exc |-> TRUE]
             ELSE IF ~(AddrLt(jaddr, top.addr) \/ jaddr = top.addr)
             THEN [popjump |-> pjstack, jcond |-> jcond, next_id |-> id, exc |-> FALSE]
             ELSE push_popjump_loop_while_before(Front(pjstack), jaddr,
                      PyBinaryOp(id, IF top.truthiness THEN "PyBooleanOr"
                                     ELSE "PyBooleanAnd", top.cond, jcond),
                      id + 1)

\* The while loop of push_popjump: the entries left on the stack, jcond as
\* combined with the entries popped, and the next free identity.
\* None < addr raises TypeError.
RECURSIVE push_popjump_loop(_, _, _, _)
push_popjump_loop(pjstack, jaddr, jcond, id) ==
    IF pjstack = <<>>
    THEN [popjump |-> pjstack, jcond |-> jcond, next_id |-> id, exc |-> FALSE]
    ELSE LET top == Last(pjstack)
         IN  IF jaddr = None
             THEN [popjump |-> pjstack, jcond |-> jcond, next_id |-> id, exc |-> TRUE]
             ELSE IF AddrLt(jaddr, top.addr) \/ jaddr = top.addr
             THEN [popjump |-> pjstack, jcond |-> jcond, next_id |-> id, exc |-> FALSE]
             ELSE LET obj_maker == IF top.truthiness THEN "PyBooleanOr"
                                   ELSE "PyBooleanAnd"
                  IN  IF jcond.kind = obj_maker
                      THEN push_popjump_loop(Front(pjstack), jaddr,
                              PyBinaryOp(id + 1, obj_maker,
                                  PyBinaryOp(id, obj_maker, top.cond, jcond.args[1]),
                                  jcond.args[2]),
                              id + 2)
                      ELSE push_popjump_loop(Front(pjstack), jaddr,
                              PyBinaryOp(id, obj_maker, top.cond, jcond), id + 1)

\* SuiteDecompiler.push_popjump
push_popjump(d, jtruthiness, jaddr0, jcond) ==
    LET before == IF jaddr0 = None THEN None ELSE AddrGetItem(code, jaddr0, -1)
    IN  IF jaddr0 # None /\ before = None
        THEN Raise(d)
        ELSE LET jaddr == IF jaddr0 # None /\ is_else_jump(code, before)
                          THEN jump(code, before)
                          ELSE jaddr0
                 r == push_popjump_loop(d.popjump, jaddr, jcond, d.next_id)
             IN  IF jaddr = Raised \/ r.exc
                 THEN Raise(d)
                 ELSE [d EXCEPT !.popjump =
                                    Append(r.popjump,
                                           PopJump(jtruthiness, jaddr, r.jcond)),
                                !.next_id = r.next_id]

\* SuiteDecompiler.pop_popjump: the cond of the entry popped.
pop_popjump(d) == Last(d.popjump).cond
pop_popjump_rest(d) == [d EXCEPT !.popjump = Front(@)]

\* The request to run SuiteDecompiler(start_addr, end_addr, stack) and what
\* the handler keeps (wait) until run() returns; shared: stack is self.stack.
\* SuiteDecompiler.__init__ reads start_addr.code, which raises on None.
StartSub(d, start_addr, end_addr, stk, shared, wait) ==
    IF ~IsAddr(start_addr) \/ end_addr = Raised
    THEN Raise(d)
    ELSE [d EXCEPT !.sub = <<[start_addr |-> start_addr, end_addr |-> end_addr,
                              stack |-> stk, shared |-> shared, wait |-> wait]>>]

\* The same object count times, as UNPACK_SEQUENCE pushes it.
Repeat(x, count) == [i \in 1..count |-> x]

\* opcode.cmp_op
cmp_op == <<"<", "<=", "==", "!=", ">", ">=", "in", "not in", "is", "is not",
            "exception match", "BAD">>




















\* The jump_addr of POP_JUMP_IF after its adjustment for the loops; Raised
\* when a jump() or an attribute of None raises.
pop_jump_if_target(addr) ==
    LET jump_addr == jump(code, addr)
        before == AddrGetItem(code, jump_addr, -1)
    IN  IF ~IsAddr(jump_addr) THEN Raised
        ELSE IF Opcode(code, jump_addr) = FOR_ITER
        THEN LET out == jump(code, jump_addr)
             IN  IF ~IsAddr(out) THEN Raised
                 ELSE IF Opcode(code, out) = POP_BLOCK
                 THEN AddrGetItem(code, out, -1)
                 ELSE out
        ELSE IF ~IsAddr(before) THEN Raised
        ELSE IF Opcode(code, before) = SETUP_LOOP
        THEN LET out == jump(code, before)
             IN  IF ~IsAddr(out) THEN Raised ELSE AddrGetItem(code, out, -2)
        ELSE jump_addr

\* POP_JUMP_IF up to d_true.run(), or to its return for a jump that is not
\* an else-jump.
handle_POP_JUMP_IF(d, addr, target, truthiness) ==
    LET jump_addr == pop_jump_if_target(addr)
        r == pop(d.stack, None)
        d1 == [d EXCEPT !.stack = r.s]
    IN  IF jump_addr = Raised \/ r.exc THEN Raise(d)
        ELSE IF ~is_else_jump(code, addr)
        THEN push_popjump(d1, truthiness, jump_addr, r.val)
        ELSE IF jump_addr = None THEN Raise(d)
        ELSE LET d2 == push_popjump(d1, truthiness, AddrGetItem(code, jump_addr, 1),
                                    r.val)
                 end_true == AddrGetItem(code, jump_addr, -1)
             IN  IF d2.exc \/ end_true = None THEN Raise(d)
                 ELSE LET d3 == [pop_popjump_rest(d2) EXCEPT
                                    !.next_id = IF truthiness THEN @ + 1 ELSE @]
                          cond == IF truthiness
                                  THEN PyNot(d2.next_id, pop_popjump(d2))
                                  ELSE pop_popjump(d2)
                      IN  IF Opcode(code, end_true) \in {RETURN_VALUE, RAISE_VARARGS}
                          THEN StartSub(d3, AddrGetItem(code, addr, 1),
                                        AddrGetItem(code, end_true, 1),
                                        EmptyStack, FALSE,
                                        [kind |-> "POP_JUMP_IF return", cond |-> cond,
                                         jump_addr |-> jump_addr])
                          ELSE StartSub(d3, AddrGetItem(code, addr, 1), end_true,
                                        EmptyStack, FALSE,
                                        [kind |-> "POP_JUMP_IF d_true", cond |-> cond,
                                         jump_addr |-> jump_addr,
                                         end_true |-> end_true])



\* The end_false of POP_JUMP_IF; Raised for raise Unknown and for what the
\* address arithmetic raises.
pop_jump_if_end_false(end_true) ==
    IF Opcode(code, end_true) = JUMP_FORWARD
    THEN jump(code, end_true)
    ELSE IF Opcode(code, end_true) = JUMP_ABSOLUTE
    THEN LET end_false == jump(code, end_true)
             before == AddrGetItem(code, end_false, -1)
         IN  IF ~IsAddr(end_false) THEN Raised
             ELSE IF Opcode(code, end_false) = FOR_ITER
             THEN LET out == jump(code, end_false)
                  IN  IF ~IsAddr(out) THEN Raised ELSE AddrGetItem(code, out, -1)
             ELSE IF ~IsAddr(before) THEN Raised
             ELSE IF Opcode(code, before) = SETUP_LOOP
             THEN LET out == jump(code, before)
                  IN  IF ~IsAddr(out) THEN Raised ELSE AddrGetItem(code, out, -2)
             ELSE end_false
    ELSE Raised


\* The end of POP_JUMP_IF with the if statement added whatever the
\* evaluation stacks of the clauses hold.
resume_POP_JUMP_IF_d_false_statement(d, w, d_false) ==
    Return([d EXCEPT !.suite =
                Append(@, IfStatement(w.cond, w.d_true.suite, d_false.suite))],
           IF w.end_false = None THEN END_NOW ELSE w.end_false)

\* POP_JUMP_IF from the return of d_false.run() on
resume_POP_JUMP_IF_d_false(d, w, d_false) ==
    LET d_true == w.d_true
        d1 == IF StackLen(d_true.stack) = 0 /\ StackLen(d_false.stack) = 0
              THEN [d EXCEPT !.suite =
                        Append(@, IfStatement(w.cond, d_true.suite, d_false.suite))]
              ELSE IF \/ ~(StackLen(d_true.stack) = 1 /\ StackLen(d_false.stack) = 1)
                      \/ ~(d_true.suite = <<>> /\ d_false.suite = <<>>)
              THEN Raise(d)
              ELSE [d EXCEPT !.stack =
                                 push(@, <<PyIfElse(d.next_id,
                                              w.cond,
                                              pop(d_true.stack, None).val,
                                              pop(d_false.stack, None).val)>>),
                             !.next_id = @ + 1]
    IN  Return(d1, IF w.end_false = None THEN END_NOW ELSE w.end_false)

----------------------------------------------------------------------------
(* Spec: Code.get_suite on one compiled unit.  frames is the chain of the   *)
(* SuiteDecompiler objects whose run() is in progress, the innermost last;  *)
(* only the innermost executes, the others wait in a handler.               *)

\* SuiteDecompiler.__init__
SuiteDecompiler(start_addr, end_addr, stk, shared) ==
    [start_addr |-> start_addr, end_addr |-> end_addr, addr |-> start_addr,
     stack |-> stk, shared |-> shared, suite |-> <<>>,
     assignment_chain |-> <<>>, popjump_stack |-> <<>>,
     wait |-> [kind |-> "run"], broke |-> FALSE]

Top == frames[Len(frames)]

\* The loop condition of run(): while addr and addr < end_addr; broke: the
\* loop was left by break, addr being the instruction whose handler
\* returned END_NOW.
Running(f) == ~f.broke /\ IsAddr(f.addr) /\ AddrLt(f.addr, f.end_addr)

\* Decompiler f is in the loop of its run(), not inside a handler.
InRun(f) == f.wait.kind = "run"

\* The context a handler of decompiler f works on.
Ctx(f) ==
    [stack |-> f.stack, suite |-> f.suite, chain |-> f.assignment_chain,
     popjump |-> f.popjump_stack, heap |-> heap, next_id |-> next_id,
     exc |-> FALSE, ret |-> None, sub |-> <<>>]

\* run() is about to call the handler of opcode in the innermost decompiler.
Dispatch(opcode) ==
    /\ status = "running"
    /\ InRun(Top)
    /\ Running(Top)
    /\ Opcode(code, Top.addr) = opcode

\* The body of the loop of run() after the handler returned r, base being the
\* chain whose last decompiler ran the handler: an exception ends get_suite;
\* a handler that started a sub-decompiler waits for its run(); else the
\* address moves to what the handler returned, addr[1] for None.
After(base, r) ==
    IF r.exc
    THEN /\ status' = "raised"
         /\ UNCHANGED <<frames, heap, next_id, result>>
    ELSE LET n == Len(base)
             f == [base[n] EXCEPT !.stack = r.stack, !.suite = r.suite,
                                  !.assignment_chain = r.chain,
                                  !.popjump_stack = r.popjump]
             new_addr == IF r.ret = None THEN AddrGetItem(code, f.addr, 1)
                         ELSE r.ret
         IN  /\ frames' =
                    IF r.sub = <<>>
                    THEN [base EXCEPT ![n] = [f EXCEPT !.addr = IF r.ret = END_NOW THEN @
                                                               ELSE new_addr,
                                                       !.broke = r.ret = END_NOW,
                                                       !.wait = [kind |-> "run"]]]
                    ELSE Append([base EXCEPT ![n] = [f EXCEPT !.wait = r.sub[1].wait]],
                                SuiteDecompiler(r.sub[1].start_addr,
                                                r.sub[1].end_addr,
                                                r.sub[1].stack, r.sub[1].shared))
             /\ heap' = r.heap
             /\ next_id' = r.next_id
             /\ UNCHANGED <<status, result>>

\* The handler of the last decompiler of base has come to wait, the head of
\* a while loop of its own, without returning: r is its context so far.
Hold(base, r, wait) ==
    IF r.exc
    THEN /\ status' = "raised"
         /\ UNCHANGED <<frames, heap, next_id, result>>
    ELSE /\ frames' = [base EXCEPT ![Len(base)] =
                          [@ EXCEPT !.stack = r.stack, !.suite = r.suite,
                                    !.assignment_chain = r.chain,
                                    !.popjump_stack = r.popjump,
                                    !.wait = wait]]
         /\ heap' = r.heap
         /\ next_id' = r.next_id
         /\ UNCHANGED <<status, result>>

\* The run() of the innermost decompiler has returned to the handler that
\* waits for it.
Returned(kind) ==
    /\ status = "running"
    /\ Len(frames) > 1
    /\ InRun(Top)
    /\ ~Running(Top)
    /\ frames[Len(frames) - 1].wait.kind = kind

\* The decompiler that waits, with the stack its sub-decompiler shared.
Waiting ==
    LET f == frames[Len(frames) - 1]
    IN  IF Top.shared THEN [f EXCEPT !.stack = Top.stack] ELSE f

\* The chain once the innermost run() has returned.
Outer == Append(SubSeq(frames, 1, Len(frames) - 2), Waiting)

----------------------------------------------------------------------------
(* SpecStack: calls on one Stack object.                                   *)

\* The objects pushed: distinct instances, two of them equal by value.
Objs == { Node(i, "PyName", IF i = 1 THEN "a" ELSE "b", <<>>) : i \in 1..NumObjs }

\* The argument tuples of push(*args): one object, or two (as ROT_TWO pushes).
PushArgs ==
    { <<o>> : o \in Objs } \cup { <<Node(1, "PyName", "a", <<>>), o>> : o \in Objs }

Call(name, arg, val, exc) ==
    [name |-> name, arg |-> arg, val |-> val, exc |-> exc, pre |-> stack]

\* Code.declare_global: name joins self.globals unless it is there already
\* (PyName objects are equal when their names are).
declare_global(c, name) ==
    IF \E i \in DOMAIN c.globals : c.globals[i].name = name.name THEN c
    ELSE [c EXCEPT !.globals = Append(@, name)]

\* The Code object a parent field refers to: 0 is the unit being decompiled,
\* any other identity is looked up among the objects h.
CodeAt(c, h, id) == IF id = 0 THEN c ELSE h[id]

\* ensure_global that looks at the parent only, not further up.
ensure_global_parent_only(c, h, name) ==
    IF c.parent # None
       /\ \E i \in DOMAIN CodeAt(c, h, c.parent).varnames :
              CodeAt(c, h, c.parent).varnames[i].name = name.name
    THEN declare_global(c, name)
    ELSE c

\* Code.ensure_global: walk up the parents; at the first one that has name
\* among its varnames, declare name global in self.
ensure_global(c, h, name) ==
    LET RECURSIVE walk(_)
        walk(parent) ==
            IF parent = None THEN c
            ELSE IF \E i \in DOMAIN CodeAt(c, h, parent).varnames :
                       CodeAt(c, h, parent).varnames[i].name = name.name
                 THEN declare_global(c, name)
                 ELSE walk(CodeAt(c, h, parent).parent)
    IN  walk(c.parent)

\* The idle values of the variables of the other specifications.
IdleCode == Code(CodeObj(<<>>, <<>>, <<>>, <<>>, "<module>"))
StackIdle == stack = EmptyStack /\ last = "idle"
AddrIdle == acall = "idle"
ExprIdle == tree = "idle" /\ rendered = <<>>
DecIdle ==
    /\ frames = <<>>
    /\ heap = <<>>
    /\ next_id = 0
    /\ status = "idle"
    /\ result = <<>>

StackInit ==
    /\ stack = EmptyStack
    /\ last = [name |-> "init", arg |-> None, val |-> None, exc |-> FALSE,
               pre |-> EmptyStack]
    /\ code = IdleCode
    /\ AddrIdle
    /\ ExprIdle
    /\ DecIdle

StackPush ==
    \E args \in PushArgs :
        /\ StackLen(stack) + Len(args) <= MaxStack
        /\ stack' = push(stack, args)
        /\ last' = Call("push", args, None, FALSE)
        /\ UNCHANGED <<code, addrVars, exprVars, decVars>>

StackPop ==
    LET r == pop(stack, None)
    IN  /\ stack' = r.s
        /\ last' = Call("pop", None, r.val, r.exc)
        /\ UNCHANGED <<code, addrVars, exprVars, decVars>>

StackPopN ==
    \E count \in 0..(StackLen(stack) + 1) :
        LET r == pop(stack, count)
        IN  /\ stack' = r.s
            /\ last' = Call("pop", count, r.val, r.exc)
            /\ UNCHANGED <<code, addrVars, exprVars, decVars>>

StackPeek ==
    LET r == peek(stack, None)
    IN  /\ stack' = stack
        /\ last' = Call("peek", None, r.val, r.exc)
        /\ UNCHANGED <<code, addrVars, exprVars, decVars>>

StackPeekN ==
    \E count \in 0..(StackLen(stack) + 1) :
        LET r == peek(stack, count)
        IN  /\ stack' = stack
            /\ last' = Call("peek", count, r.val, r.exc)
            /\ UNCHANGED <<code, addrVars, exprVars, decVars>>

StackNext ==
    \/ StackPush
    \/ StackPop
    \/ StackPopN
    \/ StackPeek
    \/ StackPeekN

SpecStack == StackInit /\ [][StackNext]_vars

----------------------------------------------------------------------------
(* SpecAddr: calls on the Addresses of one unit.                           *)

\* The instructions the units of SpecAddr are built from, as bytes.
AddrInstrs ==
    {<<POP_TOP>>, <<LOAD_CONST, 1, 1>>, <<FOR_ITER, 0, 0>>} \cup
    { <<op, n, 0>> : op \in {JUMP_FORWARD, JUMP_ABSOLUTE, POP_JUMP_IF_FALSE},
                     n \in 0..MaxArg }

\* The byte strings of exactly n such instructions.
RECURSIVE AddrCodes(_)
AddrCodes(n) ==
    IF n = 0 THEN {<<>>}
    ELSE { i \o rest : i \in AddrInstrs, rest \in AddrCodes(n - 1) }

\* The code objects for which Code() returns.
AddrCodeObjs ==
    { co \in { CodeObj(b, <<>>, <<>>, <<>>, "<module>") :
                  b \in UNION { AddrCodes(n) : n \in 1..MaxInstrs } } :
        CodeConstructs(co) }

AddrInit ==
    /\ \E co \in AddrCodeObjs : code = Code(co)
    /\ acall = [name |-> "init", index |-> None, arg |-> None, val |-> None]
    /\ StackIdle
    /\ ExprIdle
    /\ DecIdle

\* addr.jump() for an address of the unit.  The calls change nothing of the
\* unit, so one call is made on each unit constructed.
AddrJump ==
    \E i \in 0..(Len(code.instr_seq) - 1) :
        /\ acall.name = "init"
        /\ acall' = [name |-> "jump", index |-> i, arg |-> None,
                      val |-> jump(code, i)]
        /\ UNCHANGED <<code, stackVars, exprVars, decVars>>

\* addr[k] for an address of the unit.
AddrIndex ==
    \E i \in 0..(Len(code.instr_seq) - 1), k \in (-MaxInstrs)..MaxInstrs :
        /\ acall.name = "init"
        /\ acall' = [name |-> "getitem", index |-> i, arg |-> k,
                      val |-> AddrGetItem(code, i, k)]
        /\ UNCHANGED <<code, stackVars, exprVars, decVars>>

AddrNext ==
    \/ AddrJump
    \/ AddrIndex

SpecAddr == AddrInit /\ [][AddrNext]_vars

----------------------------------------------------------------------------
(* SpecExpr: str() of one expression object.                               *)

\* The classes of the operator nodes SpecExpr builds.
ExprUnary == {"PyNegative", "PyNot"}
ExprBinary == {"PyPower", "PyMultiply", "PyAdd", "PyBooleanAnd", "PyBooleanOr"}

\* The expressions with exactly n operator nodes over the operand x.
RECURSIVE ExprsOfSize(_)
ExprsOfSize(n) ==
    IF n = 0 THEN {PyName(0, "x")}
    ELSE LET Split2 == { <<i, n - 1 - i>> : i \in 0..(n - 1) }
             Split3 == { <<i, j, n - 1 - i - j>> :
                            i \in 0..(n - 1), j \in 0..(n - 1) }
         IN  { PyUnaryOp(0, k, e) : k \in ExprUnary, e \in ExprsOfSize(n - 1) }
             \cup UNION { { PyBinaryOp(0, k, l, r) :
                              k \in ExprBinary,
                              l \in ExprsOfSize(sp[1]), r \in ExprsOfSize(sp[2]) } :
                          sp \in Split2 }
             \cup UNION { { PyCompare(0, <<l, CmpOp("<"), r>>) :
                              l \in ExprsOfSize(sp[1]), r \in ExprsOfSize(sp[2]) } :
                          sp \in Split2 }
             \cup UNION { { PyIfElse(0, c, t, f) :
                              c \in ExprsOfSize(sp[1]), t \in ExprsOfSize(sp[2]),
                              f \in ExprsOfSize(sp[3]) } :
                          sp \in { q \in Split3 : q[3] >= 0 } }

ExprInit ==
    /\ tree \in UNION { ExprsOfSize(n) : n \in 0..MaxOps }
    /\ rendered = <<>>
    /\ code = IdleCode
    /\ StackIdle
    /\ AddrIdle
    /\ DecIdle

\* str(tree)
ExprStr ==
    /\ rendered = <<>>
    /\ rendered' = Str(tree)
    /\ UNCHANGED <<tree, code, stackVars, addrVars, decVars>>

ExprNext ==
    \/ ExprStr

SpecExpr == ExprInit /\ [][ExprNext]_vars

----------------------------------------------------------------------------
(* The compiled units: functions as CPython 3.2 compiles them, written as   *)
(* instructions whose jump arguments name the index of the target.          *)

\* The code objects get_suite is called on.
Units ==
    LET
        co_varnames == <<"a", "b", "c", "x", "y", "u", "f">>
        co_names == <<"g", "d", "e", "h">>
        Const(repr) == [repr |-> repr, code |-> <<>>]
        co_consts == <<Const("None")>>

        VarIndex(name) == (CHOOSE i \in DOMAIN co_varnames : co_varnames[i] = name) - 1
        Ins(opcode, arg) == <<opcode, arg>>
        Load(name) == Ins(LOAD_FAST, VarIndex(name))
        StoreTo(name) == Ins(STORE_FAST, VarIndex(name))
        ReturnNone == <<Ins(LOAD_CONST, 0), Ins(RETURN_VALUE, None)>>
        NameIndex(name) == (CHOOSE i \in DOMAIN co_names : co_names[i] = name) - 1
        Global(opcode, name) == Ins(opcode, NameIndex(name))

        InsSize(ins) == IF ins[1] >= HAVE_ARGUMENT THEN 3 ELSE 1

        \* The position in co_code of the instruction of index i.
        InsPos(instrs, i) ==
            i + 2 * Cardinality({ j \in 1..i : instrs[j][1] >= HAVE_ARGUMENT })

        \* The bytes of the instruction of index k: the opcode, then the argument,
        \* low byte first; a jump argument is the position of the target (hasjabs) or
        \* its distance from the next instruction (hasjrel).
        InsBytes(instrs, k) ==
            LET ins == instrs[k + 1]
                arg == IF ins[1] \in hasjabs THEN InsPos(instrs, ins[2])
                       ELSE IF ins[1] \in hasjrel
                       THEN InsPos(instrs, ins[2]) - InsPos(instrs, k + 1)
                       ELSE ins[2]
            IN  IF ins[1] >= HAVE_ARGUMENT
                THEN <<ins[1], arg % 256, arg \div 256>>
                ELSE <<ins[1]>>

        \* co_code from the instruction of index k on: the byte at position p is
        \* the byte p - InsPos of the instruction that covers p.
        AssembleFrom(instrs, k) ==
            LET pos == [n \in 0..Len(instrs) |-> InsPos(instrs, n)]
                at(p) == CHOOSE n \in k..(Len(instrs) - 1) :
                             pos[n] <= p /\ p < pos[n + 1]
            IN  [q \in 1..(pos[Len(instrs)] - pos[k]) |->
                    InsBytes(instrs, at(pos[k] + q - 1))
                        [pos[k] + q - pos[at(pos[k] + q - 1)]]]
        Unit(co_name, instrs) ==
            CodeObj(AssembleFrom(instrs, 0), co_names, co_varnames, co_consts, co_name)

        \* x = a and b and c          x = a or b or c
        BoolValueUnit(co_name, opcode) ==
            Unit(co_name,
                 <<Load("a"), Ins(opcode, 5), Load("b"), Ins(opcode, 5), Load("c"),
                   StoreTo("x")>> \o ReturnNone)

        \* if a and b and c: x = u
        \* else: y = u
        IfAndUnit ==
            Unit("if_and",
                 <<Load("a"), Ins(POP_JUMP_IF_FALSE, 9), Load("b"),
                   Ins(POP_JUMP_IF_FALSE, 9), Load("c"), Ins(POP_JUMP_IF_FALSE, 9),
                   Load("u"), StoreTo("x"), Ins(JUMP_FORWARD, 11),
                   Load("u"), StoreTo("y")>> \o ReturnNone)

        \* if a or b or c: x = u
        \* else: y = u
        IfOrUnit ==
            Unit("if_or",
                 <<Load("a"), Ins(POP_JUMP_IF_TRUE, 6), Load("b"),
                   Ins(POP_JUMP_IF_TRUE, 6), Load("c"), Ins(POP_JUMP_IF_FALSE, 9),
                   Load("u"), StoreTo("x"), Ins(JUMP_FORWARD, 11),
                   Load("u"), StoreTo("y")>> \o ReturnNone)

        \* if a and not b: x = u          (first FALSE, second TRUE, one target)
        \* if not a and not b: x = u      (first TRUE, second TRUE, one target)
        \* if not a and b: x = u          (first TRUE, second FALSE, one target)
        \* else: y = u
        IfBothJumpToElseUnit(co_name, first, second) ==
            Unit(co_name,
                 <<Load("a"), Ins(first, 7), Load("b"), Ins(second, 7),
                   Load("u"), StoreTo("x"), Ins(JUMP_FORWARD, 9),
                   Load("u"), StoreTo("y")>> \o ReturnNone)

        \* if a or not b: x = u           (second TRUE)
        \* if a or b: x = u               (second FALSE)
        \* else: y = u
        IfFirstJumpsToThenUnit(co_name, second) ==
            Unit(co_name,
                 <<Load("a"), Ins(POP_JUMP_IF_TRUE, 4), Load("b"), Ins(second, 7),
                   Load("u"), StoreTo("x"), Ins(JUMP_FORWARD, 9),
                   Load("u"), StoreTo("y")>> \o ReturnNone)

        \* if (a or b) and c: x = u
        \* else: y = u
        IfOrAndUnit ==
            Unit("if_or_and",
                 <<Load("a"), Ins(POP_JUMP_IF_TRUE, 4), Load("b"),
                   Ins(POP_JUMP_IF_FALSE, 9), Load("c"), Ins(POP_JUMP_IF_FALSE, 9),
                   Load("u"), StoreTo("x"), Ins(JUMP_FORWARD, 11),
                   Load("u"), StoreTo("y")>> \o ReturnNone)

        \* if a and (b or c): x = u
        \* else: y = u
        IfAndOrUnit ==
            Unit("if_and_or",
                 <<Load("a"), Ins(POP_JUMP_IF_FALSE, 9), Load("b"),
                   Ins(POP_JUMP_IF_TRUE, 6), Load("c"), Ins(POP_JUMP_IF_FALSE, 9),
                   Load("u"), StoreTo("x"), Ins(JUMP_FORWARD, 11),
                   Load("u"), StoreTo("y")>> \o ReturnNone)

        \* while a and b and c: x = u
        WhileAndUnit ==
            Unit("while_and",
                 <<Ins(SETUP_LOOP, 11), Load("a"), Ins(POP_JUMP_IF_FALSE, 10), Load("b"),
                   Ins(POP_JUMP_IF_FALSE, 10), Load("c"), Ins(POP_JUMP_IF_FALSE, 10),
                   Load("u"), StoreTo("x"), Ins(JUMP_ABSOLUTE, 1),
                   Ins(POP_BLOCK, None)>> \o ReturnNone)

        \* x = a < b < c
        CompareChainUnit ==
            Unit("compare_chain",
                 <<Load("a"), Load("b"), Ins(DUP_TOP, None), Ins(ROT_THREE, None),
                   Ins(COMPARE_OP, 0), Ins(JUMP_IF_FALSE_OR_POP, 9), Load("c"),
                   Ins(COMPARE_OP, 0), Ins(JUMP_FORWARD, 11), Ins(ROT_TWO, None),
                   Ins(POP_TOP, None), StoreTo("x")>> \o ReturnNone)

        \* x = a < b and b < c
        CompareAndValueUnit ==
            Unit("compare_and_value",
                 <<Load("a"), Load("b"), Ins(COMPARE_OP, 0), Ins(JUMP_IF_FALSE_OR_POP, 7),
                   Load("b"), Load("c"), Ins(COMPARE_OP, 0), StoreTo("x")>> \o ReturnNone)

        \* if a < b and b < c: x = u
        \* else: y = u
        CompareAndIfUnit ==
            Unit("compare_and_if",
                 <<Load("a"), Load("b"), Ins(COMPARE_OP, 0), Ins(POP_JUMP_IF_FALSE, 11),
                   Load("b"), Load("c"), Ins(COMPARE_OP, 0), Ins(POP_JUMP_IF_FALSE, 11),
                   Load("u"), StoreTo("x"), Ins(JUMP_FORWARD, 13),
                   Load("u"), StoreTo("y")>> \o ReturnNone)

        \* The stores to the first n names of co_varnames.
        Targets(n) == [i \in 1..n |-> Ins(STORE_FAST, i - 1)]

        \* t1, ..., tn = u        ([] = u for n = 0)
        UnpackUnit(n) ==
            Unit("unpack" \o ToString(n),
                 <<Load("u"), Ins(UNPACK_SEQUENCE, n)>> \o Targets(n) \o ReturnNone)

        \* t1, ..., *tk, ..., tn = u with lcount targets before the starred one and
        \* rcount after it.
        UnpackExUnit(lcount, rcount) ==
            Unit("unpack_ex" \o ToString(lcount) \o "_" \o ToString(rcount),
                 <<Load("u"), Ins(UNPACK_EX, lcount + 256 * rcount)>>
                     \o Targets(lcount + rcount + 1) \o ReturnNone)

        \* a, b = b, a
        SwapUnit ==
            Unit("swap",
                 <<Load("b"), Load("a"), Ins(ROT_TWO, None), StoreTo("a"), StoreTo("b")>>
                     \o ReturnNone)

        \* (a, b), c = u
        NestedUnpackUnit ==
            Unit("nested_unpack",
                 <<Load("u"), Ins(UNPACK_SEQUENCE, 2), Ins(UNPACK_SEQUENCE, 2),
                   StoreTo("a"), StoreTo("b"), StoreTo("c")>> \o ReturnNone)

        \* with a as b: x = u     (with a: x = u when bound is empty)
        \* y = u
        WithUnit(co_name, bound) ==
            Unit(co_name,
                 <<Load("a"), Ins(SETUP_WITH, 7),
                   IF bound = <<>> THEN Ins(POP_TOP, None) ELSE StoreTo(bound[1]),
                   Load("u"), StoreTo("x"), Ins(POP_BLOCK, None), Ins(LOAD_CONST, 0),
                   Ins(WITH_CLEANUP, None), Ins(END_FINALLY, None),
                   Load("u"), StoreTo("y")>> \o ReturnNone)

        \* raise; raise a; raise a from b; RAISE_VARARGS 3 after three loads
        RaiseOperands == <<"a", "b", "c">>
        RaiseUnit(argc) ==
            Unit("raise",
                 [i \in 1..argc |-> Load(RaiseOperands[i])]
                 \o <<Ins(RAISE_VARARGS, argc)>> \o ReturnNone)

        \* try: x = u
        \* except a: x = u             (clauses[1] = "typed")
        \* except b as y: y = u        (clauses[2] = "named")
        \* except: f = u               (bare)
        \* y = u
        \* as Python 3.2 compiles it; the k-th clause matches ClauseTypes[k], a
        \* named clause binds ClauseNames[k], the body of a clause assigns u to
        \* ClauseNames[k], the body of the bare clause to f.
        ClauseTypes == <<"a", "b", "c">>
        ClauseNames == <<"x", "y", "f">>
        ClauseSize(form) == IF form = "typed" THEN 11 ELSE 18
        RECURSIVE ClauseStart(_, _)
        ClauseStart(clauses, k) ==
            IF k = 1 THEN 5
            ELSE ClauseStart(clauses, k - 1) + ClauseSize(clauses[k - 1])
        TryEnd(clauses, bare) ==
            ClauseStart(clauses, Len(clauses) + 1) + (IF bare THEN 7 ELSE 0) + 1
        Clause(clauses, bare, k) ==
            LET start == ClauseStart(clauses, k)
                next == ClauseStart(clauses, k + 1)
                end == TryEnd(clauses, bare)
                head == <<Ins(DUP_TOP, None), Load(ClauseTypes[k]), Ins(COMPARE_OP, 10),
                          Ins(POP_JUMP_IF_FALSE, next), Ins(POP_TOP, None)>>
            IN  IF clauses[k] = "typed"
                THEN head \o <<Ins(POP_TOP, None), Ins(POP_TOP, None),
                               Load("u"), StoreTo(ClauseNames[k]),
                               Ins(POP_EXCEPT, None), Ins(JUMP_FORWARD, end)>>
                ELSE head \o <<StoreTo(ClauseNames[k]), Ins(POP_TOP, None),
                               Ins(SETUP_FINALLY, start + 13),
                               Load("u"), StoreTo(ClauseNames[k]),
                               Ins(POP_BLOCK, None), Ins(POP_EXCEPT, None),
                               Ins(LOAD_CONST, 0),
                               Ins(LOAD_CONST, 0), StoreTo(ClauseNames[k]),
                               Ins(DELETE_FAST, VarIndex(ClauseNames[k])),
                               Ins(END_FINALLY, None), Ins(JUMP_FORWARD, end)>>
        RECURSIVE ClausesFrom(_, _, _)
        ClausesFrom(clauses, bare, k) ==
            IF k > Len(clauses) THEN <<>>
            ELSE Clause(clauses, bare, k) \o ClausesFrom(clauses, bare, k + 1)
        TryUnit(clauses, bare) ==
            Unit("try",
                 <<Ins(SETUP_EXCEPT, 5), Load("u"), StoreTo("x"), Ins(POP_BLOCK, None),
                   Ins(JUMP_FORWARD, TryEnd(clauses, bare))>>
                 \o ClausesFrom(clauses, bare, 1)
                 \o (IF bare
                     THEN <<Ins(POP_TOP, None), Ins(POP_TOP, None), Ins(POP_TOP, None),
                            Load("u"), StoreTo("f"),
                            Ins(POP_EXCEPT, None),
                            Ins(JUMP_FORWARD, TryEnd(clauses, bare))>>
                     ELSE <<>>)
                 \o <<Ins(END_FINALLY, None), Load("u"), StoreTo("y")>> \o ReturnNone)
        ClauseForms ==
            UNION { [1..n -> {"typed", "named"}] : n \in 0..MaxClauses }

        \* A SETUP_EXCEPT whose handler starts with an opcode that no compiled
        \* handler starts with.
        TryOtherUnit ==
            Unit("try_other",
                 <<Ins(SETUP_EXCEPT, 5), Load("u"), StoreTo("x"), Ins(POP_BLOCK, None),
                   Ins(JUMP_FORWARD, 7), Ins(NOP, None), Ins(END_FINALLY, None)>>
                 \o ReturnNone)

        \* with a as b:
        \*     if c: x = u
        WithIfUnit ==
            Unit("with_if",
                 <<Load("a"), Ins(SETUP_WITH, 10), StoreTo("b"),
                   Load("c"), Ins(POP_JUMP_IF_FALSE, 8), Load("u"), StoreTo("x"),
                   Ins(JUMP_FORWARD, 8),
                   Ins(POP_BLOCK, None), Ins(LOAD_CONST, 0),
                   Ins(WITH_CLEANUP, None), Ins(END_FINALLY, None)>> \o ReturnNone)

        \* try:
        \*     if a: x = u
        \* except: y = u
        TryIfUnit ==
            Unit("try_if",
                 <<Ins(SETUP_EXCEPT, 8),
                   Load("a"), Ins(POP_JUMP_IF_FALSE, 6), Load("u"), StoreTo("x"),
                   Ins(JUMP_FORWARD, 6),
                   Ins(POP_BLOCK, None), Ins(JUMP_FORWARD, 16),
                   Ins(POP_TOP, None), Ins(POP_TOP, None), Ins(POP_TOP, None),
                   Load("u"), StoreTo("y"), Ins(POP_EXCEPT, None),
                   Ins(JUMP_FORWARD, 16), Ins(END_FINALLY, None)>> \o ReturnNone)

        \* A JUMP_IF_TRUE_OR_POP whose target is itself: no compiled unit holds
        \* one, a code object may.
        JumpToSelfUnit ==
            Unit("jump_to_self",
                 <<Load("a"), Load("b"), Ins(JUMP_IF_TRUE_OR_POP, 2)>> \o ReturnNone)

        \* t1 = ... = tn = u
        ChainTargets == <<"x", "y", "a", "b", "c">>
        ChainUnit(n) ==
            Unit("chain",
                 <<Load("u")>>
                 \o [i \in 1..(2 * n - 1) |->
                        IF i = 2 * n - 1 THEN StoreTo(ChainTargets[n])
                        ELSE IF i % 2 = 1 THEN Ins(DUP_TOP, None)
                        ELSE StoreTo(ChainTargets[i \div 2])]
                 \o ReturnNone)

        \* a, b = c = u
        ChainedUnpackUnit ==
            Unit("chained_unpack",
                 <<Load("u"), Ins(DUP_TOP, None), Ins(UNPACK_SEQUENCE, 2),
                   StoreTo("a"), StoreTo("b"), StoreTo("c")>> \o ReturnNone)

        \* for a, b in u: x = a
        ForUnpackUnit ==
            Unit("for_unpack",
                 <<Ins(SETUP_LOOP, 11), Load("u"), Ins(GET_ITER, None), Ins(FOR_ITER, 10),
                   Ins(UNPACK_SEQUENCE, 2), StoreTo("a"), StoreTo("b"),
                   Load("a"), StoreTo("x"), Ins(JUMP_ABSOLUTE, 3),
                   Ins(POP_BLOCK, None)>> \o ReturnNone)

        \* for y in u: continue
        ForContinueUnit ==
            Unit("for_continue",
                 <<Ins(SETUP_LOOP, 8), Load("u"), Ins(GET_ITER, None), Ins(FOR_ITER, 7),
                   StoreTo("y"), Ins(JUMP_ABSOLUTE, 3), Ins(JUMP_ABSOLUTE, 3),
                   Ins(POP_BLOCK, None)>> \o ReturnNone)

        \* x = a if c else b
        IfExpUnit ==
            Unit("if_exp",
                 <<Load("c"), Ins(POP_JUMP_IF_FALSE, 4), Load("a"), Ins(JUMP_FORWARD, 5),
                   Load("b"), StoreTo("x")>> \o ReturnNone)

        \* if c: x = a
        \* else: y = b
        IfElseUnit ==
            Unit("if_else",
                 <<Load("c"), Ins(POP_JUMP_IF_FALSE, 5), Load("a"), StoreTo("x"),
                   Ins(JUMP_FORWARD, 7), Load("b"), StoreTo("y")>> \o ReturnNone)

        \* if c: return a
        \* return b
        IfReturnUnit ==
            Unit("if_return",
                 <<Load("c"), Ins(POP_JUMP_IF_FALSE, 4), Load("a"), Ins(RETURN_VALUE, None),
                   Load("b"), Ins(RETURN_VALUE, None)>>)

        \* while c: x = a
        WhileUnit ==
            Unit("while",
                 <<Ins(SETUP_LOOP, 7), Load("c"), Ins(POP_JUMP_IF_FALSE, 6), Load("a"),
                   StoreTo("x"), Ins(JUMP_ABSOLUTE, 1), Ins(POP_BLOCK, None)>>
                     \o ReturnNone)

        \* for y in u:
        \*     if c: x = a
        \*     else: x = b
        ForIfElseUnit ==
            Unit("for_if_else",
                 <<Ins(SETUP_LOOP, 14), Load("u"), Ins(GET_ITER, None), Ins(FOR_ITER, 13),
                   StoreTo("y"), Load("c"), Ins(POP_JUMP_IF_FALSE, 10), Load("a"),
                   StoreTo("x"), Ins(JUMP_ABSOLUTE, 3), Load("b"), StoreTo("x"),
                   Ins(JUMP_ABSOLUTE, 3), Ins(POP_BLOCK, None)>> \o ReturnNone)

        \* a
        ExprStatementUnit ==
            Unit("expr_statement", <<Load("a"), Ins(POP_TOP, None)>> \o ReturnNone)

        \* Not the output of a compiler: a conditional whose true clause leaves a
        \* value and whose false clause is empty.
        UnbalancedUnit ==
            Unit("unbalanced",
                 <<Load("c"), Ins(POP_JUMP_IF_FALSE, 4), Load("a"), Ins(JUMP_FORWARD, 4),
                   StoreTo("x")>> \o ReturnNone)

        \* Not the output of a compiler: an unpack of two with one store.
        ShortUnpackUnit ==
            Unit("short_unpack",
                 <<Load("u"), Ins(UNPACK_SEQUENCE, 2), StoreTo("a")>> \o ReturnNone)

        \* A nested code object: its own locals, the constant None.
        Nested(co_name, locals, instrs) ==
            CodeObj(AssembleFrom(instrs, 0), <<>>, locals, co_consts, co_name)

        \* A unit whose second constant is the nested code object.
        UnitAround(co_name, nested, instrs) ==
            CodeObj(AssembleFrom(instrs, 0), co_names, co_varnames,
                    co_consts \o <<[repr |-> "<code object>", code |-> <<nested>>]>>,
                    co_name)

        \* The code of [y for y in .0], {y for y in .0} and {y: y for y in .0}
        \* (build the container, add to it by add), with `if y` when filtered.
        CompCode(co_name, build, add, filtered) ==
            Nested(co_name, <<".0", "y">>,
                   <<Ins(build, 0), Ins(LOAD_FAST, 0),
                     Ins(FOR_ITER, 7 + (IF filtered THEN 2 ELSE 0)
                                     + (IF add = MAP_ADD THEN 1 ELSE 0)),
                     Ins(STORE_FAST, 1)>>
                   \o (IF filtered
                       THEN <<Ins(LOAD_FAST, 1), Ins(POP_JUMP_IF_FALSE, 2)>>
                       ELSE <<>>)
                   \o (IF add = MAP_ADD THEN <<Ins(LOAD_FAST, 1)>> ELSE <<>>)
                   \o <<Ins(LOAD_FAST, 1), Ins(add, 2), Ins(JUMP_ABSOLUTE, 2),
                        Ins(RETURN_VALUE, None)>>)

        \* The code of (y for y in .0), with `if y` when filtered.
        GenExprCode(filtered) ==
            Nested("<genexpr>", <<".0", "y">>,
                   <<Ins(LOAD_FAST, 0),
                     Ins(FOR_ITER, IF filtered THEN 9 ELSE 7),
                     Ins(STORE_FAST, 1)>>
                   \o (IF filtered
                       THEN <<Ins(LOAD_FAST, 1), Ins(POP_JUMP_IF_FALSE, 1)>>
                       ELSE <<>>)
                   \o <<Ins(LOAD_FAST, 1), Ins(YIELD_VALUE, None), Ins(POP_TOP, None),
                        Ins(JUMP_ABSOLUTE, 1)>> \o ReturnNone)

        \* x = [y for y in u] and the like: the nested code is made a function
        \* and called with iter(u).
        CompUnit(co_name, nested) ==
            UnitAround(co_name, nested,
                       <<Ins(LOAD_CONST, 1), Ins(MAKE_FUNCTION, 0), Load("u"),
                         Ins(GET_ITER, None), Ins(CALL_FUNCTION, 1), StoreTo("x")>>
                       \o ReturnNone)

        \* x = lambda: None
        LambdaUnit ==
            UnitAround("lambda", Nested("<lambda>", <<>>, ReturnNone),
                       <<Ins(LOAD_CONST, 1), Ins(MAKE_FUNCTION, 0), StoreTo("x")>>
                       \o ReturnNone)

        \* @d
        \* @e
        \* def f(): pass          with the first n of the decorators d, e, h, g
        \* (h, then g, is nearest to def)
        Decorators == <<"d", "e", "h", "g">>
        DefUnit(n) ==
            UnitAround("def",
                       Nested("f", <<>>, ReturnNone),
                       [i \in 1..n |-> Global(LOAD_GLOBAL, Decorators[i])]
                       \o <<Ins(LOAD_CONST, 1), Ins(MAKE_FUNCTION, 0)>>
                       \o [i \in 1..n |-> Ins(CALL_FUNCTION, 1)]
                       \o <<StoreTo("f")>> \o ReturnNone)

        \* x = d(a, b)
        CallUnit ==
            Unit("call",
                 <<Global(LOAD_GLOBAL, "d"), Load("a"), Load("b"),
                   Ins(CALL_FUNCTION, 2), StoreTo("x")>> \o ReturnNone)

        \* A unit with the cell variable p and the free variable q.
        ClosureUnit(co_name, instrs) ==
            [Unit(co_name, instrs) EXCEPT !.co_cellvars = <<"p">>,
                                          !.co_freevars = <<"q">>]

        \* p = a          nonlocal q; q = a          nonlocal q; q = a; q = b
        StoreDerefUnit(co_name, indices) ==
            ClosureUnit(co_name,
                        <<Load("a"), Ins(STORE_DEREF, indices[1])>>
                        \o (IF Len(indices) = 1 THEN <<>>
                            ELSE <<Load("b"), Ins(STORE_DEREF, indices[2])>>)
                        \o ReturnNone)

        \* del p          nonlocal q; del q
        DeleteDerefUnit(co_name, i) ==
            ClosureUnit(co_name, <<Ins(DELETE_DEREF, i)>> \o ReturnNone)

        \* x = g            x = g; y = g            x = d; y = g
        LoadGlobalUnit(co_name, names) ==
            Unit(co_name,
                 <<Global(LOAD_GLOBAL, names[1]), StoreTo("x")>>
                 \o (IF Len(names) = 1 THEN <<>>
                     ELSE <<Global(LOAD_GLOBAL, names[2]), StoreTo("y")>>)
                 \o ReturnNone)

        \* global g; g = a          global g; g = a; g = b
        \* global g, d; g = a; d = b
        StoreGlobalUnit(co_name, names) ==
            Unit(co_name,
                 <<Load("a"), Global(STORE_GLOBAL, names[1])>>
                 \o (IF Len(names) = 1 THEN <<>>
                     ELSE <<Load("b"), Global(STORE_GLOBAL, names[2])>>)
                 \o ReturnNone)

        \* global g; g = a; x = g          x = g; g = a (g local further out)
        StoreLoadGlobalUnit ==
            Unit("store_load_global",
                 <<Load("a"), Global(STORE_GLOBAL, "g"), Global(LOAD_GLOBAL, "g"),
                   StoreTo("x")>> \o ReturnNone)
        LoadStoreGlobalUnit ==
            Unit("load_store_global",
                 <<Global(LOAD_GLOBAL, "g"), StoreTo("x"), Load("a"),
                   Global(STORE_GLOBAL, "g")>> \o ReturnNone)

        \* global g; del g          global g; g = a; del g
        DeleteGlobalUnit ==
            Unit("delete_global", <<Global(DELETE_GLOBAL, "g")>> \o ReturnNone)
        StoreDeleteGlobalUnit ==
            Unit("store_delete_global",
                 <<Load("a"), Global(STORE_GLOBAL, "g"), Global(DELETE_GLOBAL, "g")>>
                 \o ReturnNone)

        \* Not the output of a compiler: a value that nothing consumes.
        LeftoverUnit ==
            Unit("leftover", <<Load("a"), Load("b"), StoreTo("x")>> \o ReturnNone)
    IN
        {BoolValueUnit("and_value", JUMP_IF_FALSE_OR_POP),
         BoolValueUnit("or_value", JUMP_IF_TRUE_OR_POP),
         IfAndUnit, IfOrUnit, WhileAndUnit,
         CompareChainUnit, CompareAndValueUnit, CompareAndIfUnit,
         SwapUnit, NestedUnpackUnit, ChainedUnpackUnit, ForUnpackUnit,
         ForContinueUnit, IfExpUnit, IfElseUnit, IfReturnUnit, WhileUnit,
         ForIfElseUnit, ExprStatementUnit, UnbalancedUnit, ShortUnpackUnit,
         LeftoverUnit,
         LoadGlobalUnit("load_global", <<"g">>),
         LoadGlobalUnit("load_global_twice", <<"g", "g">>),
         LoadGlobalUnit("load_globals", <<"d", "g">>),
         StoreGlobalUnit("store_global", <<"g">>),
         StoreGlobalUnit("store_global_twice", <<"g", "g">>),
         StoreGlobalUnit("store_globals", <<"g", "d">>),
         StoreLoadGlobalUnit, LoadStoreGlobalUnit,
         DeleteGlobalUnit, StoreDeleteGlobalUnit,
         CompUnit("listcomp", CompCode("<listcomp>", BUILD_LIST, LIST_APPEND, FALSE)),
         CompUnit("listcomp_if", CompCode("<listcomp>", BUILD_LIST, LIST_APPEND, TRUE)),
         CompUnit("setcomp_if", CompCode("<setcomp>", BUILD_SET, SET_ADD, TRUE)),
         CompUnit("dictcomp_if", CompCode("<dictcomp>", BUILD_MAP, MAP_ADD, TRUE)),
         CompUnit("genexpr", GenExprCode(FALSE)),
         CompUnit("genexpr_if", GenExprCode(TRUE)),
         LambdaUnit, CallUnit,
         IfBothJumpToElseUnit("if_and_not", POP_JUMP_IF_FALSE, POP_JUMP_IF_TRUE),
         IfBothJumpToElseUnit("if_not_and_not", POP_JUMP_IF_TRUE, POP_JUMP_IF_TRUE),
         IfBothJumpToElseUnit("if_not_and", POP_JUMP_IF_TRUE, POP_JUMP_IF_FALSE),
         IfFirstJumpsToThenUnit("if_or_not", POP_JUMP_IF_TRUE),
         IfFirstJumpsToThenUnit("if_or_2", POP_JUMP_IF_FALSE),
         IfOrAndUnit, IfAndOrUnit,
         StoreDerefUnit("store_cell", <<0>>),
         StoreDerefUnit("store_free", <<1>>),
         StoreDerefUnit("store_free_twice", <<1, 1>>),
         StoreDerefUnit("store_cell_free", <<0, 1>>),
         DeleteDerefUnit("delete_cell", 0),
         DeleteDerefUnit("delete_free", 1)}
        \cup { DefUnit(n) : n \in 0..MaxDecorators }
        \cup { ChainUnit(n) : n \in 1..MaxTargets }
        \cup { TryUnit(tc[1], tc[2]) :
                 tc \in { q \in ClauseForms \X BOOLEAN : q[1] # <<>> \/ q[2] } }
        \cup { TryOtherUnit, WithIfUnit, TryIfUnit, JumpToSelfUnit }
        \cup { RaiseUnit(argc) : argc \in 0..3 }
        \cup { WithUnit("with_as", <<"b">>), WithUnit("with", <<>>) }
        \cup { UnpackUnit(n) : n \in 0..MaxTargets }
        \cup { UnpackExUnit(sp[1], sp[2]) :
                 sp \in { q \in (0..MaxTargets) \X (0..MaxTargets) :
                            q[1] + q[2] + 1 <= MaxTargets } }

\* The local names of the code objects around a unit, the nearest first: a
\* unit has up to MaxDepth of them, each with the locals a or a and g.
AncestorChains ==
    UNION { [1..n -> {<<"a">>, <<"a", "g">>}] : n \in 0..MaxDepth }

\* The Code objects of the units around a unit, made before it, each with
\* the next one as its parent, the last with parent None.  They get the
\* identities from base + 1 on, their PyName objects the ones after.
Ancestors(base, locals) ==
    LET n == Len(locals)
        RECURSIVE first_name(_)
        first_name(k) == IF k = 1 THEN base + n
                         ELSE first_name(k - 1) + Len(locals[k - 1])
        Enclosing(k) ==
            [Code(CodeObj(<<>>, <<>>, locals[k], <<>>, "<enclosing>")) EXCEPT
                !.parent = IF k = n THEN None ELSE base + k + 1,
                !.varnames = [i \in 1..Len(locals[k]) |->
                                 Node(first_name(k) + i, "PyName", locals[k][i], <<>>)]]
    IN  [heap |-> [k \in (base + 1)..(base + n) |-> Enclosing(k - base)],
         next_id |-> IF n = 0 THEN base + 1 ELSE first_name(n) + Len(locals[n]) + 1]

\* Code(code_obj, parent) and, in get_suite, dec = SuiteDecompiler(self[0]),
\* for one of the given units inside one of the given chains of ancestors.
GetSuiteOn(units, chains) ==
    /\ \E code_obj \in units, locals \in chains :
          /\ CodeConstructs(code_obj)
          /\ LET c == Code(code_obj)
                 base == Len(c.varnames) + Len(c.consts) + Len(c.names)
                         + Len(c.derefnames)
             IN  /\ code = [c EXCEPT !.parent = IF locals = <<>> THEN None
                                                ELSE base + 1]
                 /\ heap = Ancestors(base, locals).heap
                 /\ next_id = Ancestors(base, locals).next_id
    /\ frames = <<SuiteDecompiler(CodeGetItem(code, 0), None, EmptyStack, FALSE)>>
    /\ status = "running"
    /\ result = <<>>
    /\ StackIdle
    /\ AddrIdle
    /\ ExprIdle

DecInit == GetSuiteOn(Units, AncestorChains)

Others == <<code, stackVars, addrVars, exprVars>>

Run_POP_TOP ==
    /\ Dispatch(POP_TOP)
    /\ LET d == Ctx(Top)
           addr == Top.addr
       IN  After(frames,
                 LET r == pop(d.stack, None)
                 IN  IF r.exc \/ ~IsPyExpr(r.val)
                     THEN Raise(d)
                     ELSE write([d EXCEPT !.stack = r.s], Str(r.val)))
    /\ UNCHANGED Others

\* The ROT_TWO that is in force: the second definition of the class body.
Run_ROT_TWO ==
    /\ Dispatch(ROT_TWO)
    /\ LET d == Ctx(Top)
           addr == Top.addr
       IN  After(frames,
                 LET r == pop(d.stack, 2)
                     val == PyTuple(d.next_id, r.val)
                     unpack == Ref(d.next_id + 1, "Unpack")
                 IN  IF r.exc THEN Raise(d)
                     ELSE [d EXCEPT !.heap = (unpack.id :> Unpack(val, 2, None)) @@ @,
                                    !.next_id = @ + 2,
                                    !.stack = push(r.s, <<unpack, unpack>>)])
    /\ UNCHANGED Others

Run_ROT_THREE ==
    /\ Dispatch(ROT_THREE)
    /\ LET d == Ctx(Top)
           addr == Top.addr
       IN  After(frames,
                 LET r == pop(d.stack, 3)
                 IN  IF r.exc THEN Raise(d)
                     ELSE [d EXCEPT !.stack = push(r.s, <<r.val[3], r.val[1], r.val[2]>>)])
    /\ UNCHANGED Others

Run_DUP_TOP ==
    /\ Dispatch(DUP_TOP)
    /\ LET d == Ctx(Top)
           addr == Top.addr
       IN  After(frames,
                 LET r == peek(d.stack, None)
                 IN  IF r.exc THEN Raise(d)
                     ELSE [d EXCEPT !.stack = push(@, <<r.val>>)])
    /\ UNCHANGED Others

Run_GET_ITER ==
    /\ Dispatch(GET_ITER)
    /\ LET d == Ctx(Top)
           addr == Top.addr
       IN  After(frames,
                 d)
    /\ UNCHANGED Others

Run_RETURN_VALUE ==
    /\ Dispatch(RETURN_VALUE)
    /\ LET d == Ctx(Top)
           addr == Top.addr
       IN  After(frames,
                 LET r == pop(d.stack, None)
                     d1 == [d EXCEPT !.stack = r.s]
                 IN  IF r.exc THEN Raise(d)
                     ELSE IF r.val.kind = "PyConst" /\ r.val.name = "None"
                     THEN IF AddrGetItem(code, addr, 1) # None
                          THEN write(d1, <<"return">>)
                          ELSE d1
                     ELSE write(d1, <<"return">> \o Str(r.val)))
    /\ UNCHANGED Others

Run_POP_BLOCK ==
    /\ Dispatch(POP_BLOCK)
    /\ LET d == Ctx(Top)
           addr == Top.addr
       IN  After(frames,
                 d)
    /\ UNCHANGED Others

Run_UNPACK_SEQUENCE ==
    /\ Dispatch(UNPACK_SEQUENCE)
    /\ LET d == Ctx(Top)
           addr == Top.addr
           count == Arg(code, Top.addr)
       IN  After(frames,
                 LET r == pop(d.stack, None)
                     unpack == Ref(d.next_id, "Unpack")
                 IN  IF r.exc THEN Raise(d)
                     ELSE [d EXCEPT !.heap = (d.next_id :> Unpack(r.val, count, None)) @@ @,
                                    !.next_id = @ + 1,
                                    !.stack = push(r.s, Repeat(unpack, count))])
    /\ UNCHANGED Others

Run_UNPACK_EX ==
    /\ Dispatch(UNPACK_EX)
    /\ LET d == Ctx(Top)
           addr == Top.addr
           counts == Arg(code, Top.addr)
       IN  After(frames,
                 LET rcount == counts \div 256
                     lcount == counts % 256
                     count == lcount + rcount + 1
                     r == pop(d.stack, None)
                     unpack == Ref(d.next_id, "Unpack")
                 IN  IF r.exc THEN Raise(d)
                     ELSE [d EXCEPT !.heap = (d.next_id :> Unpack(r.val, count, lcount)) @@ @,
                                    !.next_id = @ + 1,
                                    !.stack = push(r.s, Repeat(unpack, count))])
    /\ UNCHANGED Others

Run_LOAD_CONST ==
    /\ Dispatch(LOAD_CONST)
    /\ LET d == Ctx(Top)
           addr == Top.addr
           consti == Arg(code, Top.addr)
       IN  After(frames,
                 IF consti + 1 \notin DOMAIN code.consts THEN Raise(d)
                 ELSE [d EXCEPT !.stack = push(@, <<code.consts[consti + 1]>>)])
    /\ UNCHANGED Others

Run_LOAD_FAST ==
    /\ Dispatch(LOAD_FAST)
    /\ LET d == Ctx(Top)
           addr == Top.addr
           var_num == Arg(code, Top.addr)
       IN  After(frames,
                 IF var_num + 1 \notin DOMAIN code.varnames THEN Raise(d)
                 ELSE [d EXCEPT !.stack = push(@, <<code.varnames[var_num + 1]>>)])
    /\ UNCHANGED Others

Run_STORE_FAST ==
    /\ Dispatch(STORE_FAST)
    /\ LET d == Ctx(Top)
           addr == Top.addr
           var_num == Arg(code, Top.addr)
       IN  After(frames,
                 IF var_num + 1 \notin DOMAIN code.varnames THEN Raise(d)
                 ELSE store(d, code.varnames[var_num + 1]))
    /\ UNCHANGED Others

Run_LOAD_GLOBAL ==
    /\ Dispatch(LOAD_GLOBAL)
    /\ LET d == Ctx(Top)
           namei == Arg(code, Top.addr)
       IN  IF namei + 1 \notin DOMAIN code.names
           THEN After(frames, Raise(d)) /\ UNCHANGED code
           ELSE /\ code' = ensure_global(code, heap, code.names[namei + 1])
                /\ After(frames,
                         [d EXCEPT !.stack = push(@, <<code.names[namei + 1]>>)])
    /\ UNCHANGED <<stackVars, addrVars, exprVars>>

Run_STORE_GLOBAL ==
    /\ Dispatch(STORE_GLOBAL)
    /\ LET d == Ctx(Top)
           namei == Arg(code, Top.addr)
       IN  IF namei + 1 \notin DOMAIN code.names
           THEN After(frames, Raise(d)) /\ UNCHANGED code
           ELSE /\ code' = declare_global(code, code.names[namei + 1])
                /\ After(frames, store(d, code.names[namei + 1]))
    /\ UNCHANGED <<stackVars, addrVars, exprVars>>

\* DELETE_GLOBAL looks the name up and calls self.declare_global, which a
\* SuiteDecompiler does not have (declare_global is a method of Code): an
\* IndexError or an AttributeError, and nothing is declared or written.
Run_DELETE_GLOBAL ==
    /\ Dispatch(DELETE_GLOBAL)
    /\ After(frames, Raise(Ctx(Top)))
    /\ UNCHANGED Others

\* STORE_DEREF; iscellvar(i) is i < len(co_cellvars), and declare_nonlocal
\* appends the name to self.nonlocals unless it is there.
Run_STORE_DEREF ==
    /\ Dispatch(STORE_DEREF)
    /\ LET d == Ctx(Top)
           i == Arg(code, Top.addr)
       IN  IF i + 1 \notin DOMAIN code.derefnames
           THEN After(frames, Raise(d)) /\ UNCHANGED code
           ELSE LET name == code.derefnames[i + 1]
                IN  /\ code' =
                          IF i < Len(code.code_obj.co_cellvars)
                             \/ \E k \in DOMAIN code.nonlocals :
                                   code.nonlocals[k].name = name.name
                          THEN code
                          ELSE [code EXCEPT !.nonlocals = Append(@, name)]
                    /\ After(frames, store(d, name))
    /\ UNCHANGED <<stackVars, addrVars, exprVars>>

\* DELETE_DEREF starts with self.code.getderefname(i), a method that Code
\* does not have: an AttributeError, and nothing is declared or written.
Run_DELETE_DEREF ==
    /\ Dispatch(DELETE_DEREF)
    /\ After(frames, Raise(Ctx(Top)))
    /\ UNCHANGED Others

\* CALL_FUNCTION for argc >> 8 = 0 (no keyword arguments) of a function
\* that is not the one LOAD_BUILD_CLASS pushes; have_var and have_kw are
\* False.
Run_CALL_FUNCTION ==
    /\ Dispatch(CALL_FUNCTION)
    /\ Arg(code, Top.addr) \div 256 = 0
    /\ LET d == Ctx(Top)
           addr == Top.addr
           argc == Arg(code, Top.addr)
       IN  After(frames,
                 LET r == pop(d.stack, argc % 256)
                     posargs == r.val
                     rf == pop(r.s, None)
                     func == rf.val
                     d1 == [d EXCEPT !.stack = rf.s]
                 IN  IF r.exc \/ rf.exc THEN Raise(d)
                     ELSE IF func.kind \in PyCompKinds
                     THEN \* func.set_iterable(posargs[0])
                          IF Len(posargs) # 1 \/ d.heap[func.args[1].id].varnames = <<>>
                          THEN Raise(d)
                          ELSE [d1 EXCEPT
                                   !.heap[func.args[1].id].varnames[1] = posargs[1],
                                   !.stack = push(rf.s, <<func>>)]
                     ELSE IF posargs # <<>> /\ posargs[1].kind = "DefStatement"
                     THEN \* defn.decorate(func)
                          IF Len(posargs) # 1 THEN Raise(d)
                          ELSE [d1 EXCEPT
                                   !.heap[posargs[1].id].decorators = Append(@, func),
                                   !.stack = push(rf.s, <<posargs[1]>>)]
                     ELSE [d1 EXCEPT
                              !.stack = push(rf.s,
                                             <<Node(d.next_id, "PyCallFunction", "",
                                                    <<func>> \o posargs)>>),
                              !.next_id = @ + 1])
    /\ UNCHANGED Others

\* MAKE_FUNCTION for argc >> 8 = 0 (no keyword-only defaults); is_closure is
\* False.  The Code object of the nested unit gets the unit being
\* decompiled as its parent; the identities of its own tables are local to
\* it.
Run_MAKE_FUNCTION ==
    /\ Dispatch(MAKE_FUNCTION)
    /\ Arg(code, Top.addr) \div 256 = 0
    /\ LET d == Ctx(Top)
           addr == Top.addr
           argc == Arg(code, Top.addr)
       IN  After(frames,
                 LET rc == pop(d.stack, None)
                     r == pop(rc.s, argc % 256)
                     defaults == r.val
                     code_id == d.next_id
                     maker_id == d.next_id + 1
                 IN  IF rc.exc \/ r.exc THEN Raise(d)
                     ELSE IF rc.val.kind # "PyConst" \/ rc.val.args = <<>> THEN Raise(d)
                     ELSE IF ~CodeConstructs(rc.val.args[1]) THEN Raise(d)
                     ELSE LET c == [Code(rc.val.args[1]) EXCEPT !.parent = 0]
                              func_maker == code_map(c.name)
                              d1 == [d EXCEPT !.next_id = @ + 2]
                          IN  IF func_maker \in PyCompKinds
                              THEN IF PyComp_init(c, func_maker, defaults).exc
                                   THEN Raise(d)
                                   ELSE [d1 EXCEPT
                                            !.heap = (code_id :>
                                                      PyComp_init(c, func_maker,
                                                                  defaults).code) @@ @,
                                            !.stack = push(r.s,
                                                <<Node(maker_id, func_maker, "",
                                                       <<Ref(code_id, "Code")>>)>>)]
                              ELSE IF func_maker = "PyLambda"
                              THEN [d1 EXCEPT
                                       !.heap = (code_id :> c) @@ @,
                                       !.stack = push(r.s,
                                           <<Node(maker_id, "PyLambda", "",
                                                  <<Ref(code_id, "Code")>> \o defaults)>>)]
                              ELSE [d1 EXCEPT
                                       !.heap = (code_id :> c)
                                                @@ (maker_id :> DefStatement(code_id, defaults))
                                                @@ @,
                                       !.stack = push(r.s,
                                           <<Ref(maker_id, "DefStatement")>>)])
    /\ UNCHANGED Others

\* COMPARE_OP for opname # 10 (10 is the exception match of a try statement).
Run_COMPARE_OP ==
    /\ Dispatch(COMPARE_OP)
    /\ Arg(code, Top.addr) # 10
    /\ LET d == Ctx(Top)
           addr == Top.addr
           opname == Arg(code, Top.addr)
       IN  After(frames,
                 LET r == pop(d.stack, 2)
                 IN  IF r.exc \/ opname + 1 \notin DOMAIN cmp_op THEN Raise(d)
                     ELSE [d EXCEPT !.stack =
                                        push(r.s, <<PyCompare(d.next_id,
                                                       <<r.val[1], CmpOp(cmp_op[opname + 1]),
                                                         r.val[2]>>)>>),
                                    !.next_id = @ + 1])
    /\ UNCHANGED Others

Run_JUMP_FORWARD ==
    /\ Dispatch(JUMP_FORWARD)
    /\ LET d == Ctx(Top)
           addr == Top.addr
           delta == Arg(code, Top.addr)
       IN  After(frames,
                 IF jump(code, addr) = Raised THEN Raise(d)
                 ELSE Return(d, jump(code, addr)))
    /\ UNCHANGED Others

Run_JUMP_ABSOLUTE ==
    /\ Dispatch(JUMP_ABSOLUTE)
    /\ LET d == Ctx(Top)
           addr == Top.addr
           target == Arg(code, Top.addr)
       IN  After(frames,
                 d)
    /\ UNCHANGED Others

Run_SETUP_LOOP ==
    /\ Dispatch(SETUP_LOOP)
    /\ LET d == Ctx(Top)
           addr == Top.addr
           delta == Arg(code, Top.addr)
       IN  After(frames,
                 d)
    /\ UNCHANGED Others

\* RAISE_VARARGS.  With argc 2 the handler unpacks the one value it pops
\* (a PyExpr is not iterable: TypeError) and would then read the attribute
\* exc of a string; with any other argc it raises.
Run_RAISE_VARARGS ==
    /\ Dispatch(RAISE_VARARGS)
    /\ LET d == Ctx(Top)
           addr == Top.addr
           argc == Arg(code, Top.addr)
       IN  After(frames,
                 IF argc = 0 THEN write(d, <<"raise">>)
                 ELSE IF argc = 1
                 THEN LET r == pop(d.stack, None)
                      IN  IF r.exc THEN Raise(d)
                          ELSE write([d EXCEPT !.stack = r.s], <<"raise">> \o Str(r.val))
                 ELSE Raise(d))
    /\ UNCHANGED Others

Run_POP_EXCEPT ==
    /\ Dispatch(POP_EXCEPT)
    /\ LET d == Ctx(Top)
           addr == Top.addr
       IN  After(frames,
                 Return(d, END_NOW))
    /\ UNCHANGED Others

\* SETUP_EXCEPT up to d_try.run()
Run_SETUP_EXCEPT ==
    /\ Dispatch(SETUP_EXCEPT)
    /\ LET d == Ctx(Top)
           addr == Top.addr
           delta == Arg(code, Top.addr)
       IN  After(frames,
                 LET start_except == jump(code, addr)
                     end_try == AddrGetItem(code, start_except, -1)
                 IN  StartSub(d, AddrGetItem(code, addr, 1), end_try,
                              EmptyStack, FALSE,
                              [kind |-> "SETUP_EXCEPT d_try",
                               start_except |-> start_except, end_try |-> end_try]))
    /\ UNCHANGED Others

\* SETUP_EXCEPT from the return of d_try.run() to the head of its while loop
Resume_SETUP_EXCEPT_d_try ==
    /\ Returned("SETUP_EXCEPT d_try")
    /\ LET d == Ctx(Waiting)
           w == Waiting.wait
           d_try == Top
           stmt == Ref(d.next_id, "TryStatement")
       IN  Hold(Outer,
                IF ~IsAddr(w.end_try) THEN Raise(d)
                ELSE IF Opcode(code, w.end_try) # JUMP_FORWARD THEN Raise(d)
                ELSE IF jump(code, w.end_try) = Raised THEN Raise(d)
                ELSE [d EXCEPT !.heap = (stmt.id :> TryStatement(d_try.suite)) @@ @,
                               !.next_id = @ + 1],
                [kind |-> "SETUP_EXCEPT while", stmt |-> stmt,
                 start_except |-> w.start_except])
    /\ UNCHANGED Others

\* One turn of the while loop of SETUP_EXCEPT, from its test to the run() of
\* d_except or to the return of the handler.  When start_except is at an
\* opcode other than END_FINALLY, DUP_TOP and POP_TOP, neither branch of the
\* body is taken and the turn changes nothing.
Scan_SETUP_EXCEPT ==
    /\ status = "running"
    /\ Top.wait.kind = "SETUP_EXCEPT while"
    /\ LET d == Ctx(Top)
           stmt == Top.wait.stmt
           start_except == Top.wait.start_except
       IN  IF ~IsAddr(start_except) THEN After(frames, Raise(d))
           ELSE IF Opcode(code, start_except) = END_FINALLY
           THEN After(frames,
                      Return([d EXCEPT !.suite = Append(@, TryStatementOf(d.heap[stmt.id]))],
                             AddrGetItem(code, start_except, 1)))
           ELSE IF Opcode(code, start_except) = DUP_TOP
           THEN After(frames,
                      StartSub(d, AddrGetItem(code, start_except, 1), None,
                               push(EmptyStack, <<stmt>>), FALSE,
                               [kind |-> "SETUP_EXCEPT d_except", stmt |-> stmt]))
           ELSE IF Opcode(code, start_except) = POP_TOP
           THEN After(frames,
                      StartSub(d, AddrGetItem(code, start_except, 3), None,
                               EmptyStack, FALSE,
                               [kind |-> "SETUP_EXCEPT bare", stmt |-> stmt]))
           ELSE UNCHANGED decVars
    /\ UNCHANGED Others

\* SETUP_EXCEPT from the return of the d_except.run() of a DUP_TOP clause to
\* the head of the while loop
Resume_SETUP_EXCEPT_d_except ==
    /\ Returned("SETUP_EXCEPT d_except")
    /\ LET d == Ctx(Waiting)
           w == Waiting.wait
           next_start_except == d.heap[w.stmt.id].next_start_except
       IN  Hold(Outer,
                IF next_start_except = <<>> THEN Raise(d) ELSE d,
                [kind |-> "SETUP_EXCEPT while", stmt |-> w.stmt,
                 start_except |-> IF next_start_except = <<>> THEN None
                                  ELSE next_start_except[1]])
    /\ UNCHANGED Others

\* SETUP_EXCEPT from the return of the d_except.run() of a bare clause to the
\* head of the while loop
Resume_SETUP_EXCEPT_bare ==
    /\ Returned("SETUP_EXCEPT bare")
    /\ LET d == Ctx(Waiting)
           w == Waiting.wait
           d_except == Top
           end_except == d_except.addr
           start_except == AddrGetItem(code, end_except, 2)
       IN  Hold(Outer,
                IF ~IsAddr(start_except) THEN Raise(d)
                ELSE IF Opcode(code, start_except) # END_FINALLY THEN Raise(d)
                ELSE [d EXCEPT !.heap[w.stmt.id] =
                                 add_except_clause(@, <<>>, d_except.suite)],
                [kind |-> "SETUP_EXCEPT while", stmt |-> w.stmt,
                 start_except |-> start_except])
    /\ UNCHANGED Others

\* COMPARE_OP 10 (exception match) up to d_body.run()
Run_COMPARE_OP_match ==
    /\ Dispatch(COMPARE_OP)
    /\ Arg(code, Top.addr) = 10
    /\ LET d == Ctx(Top)
           addr == Top.addr
           opname == Arg(code, Top.addr)
       IN  After(frames,
                 LET r == pop(d.stack, 2)
                     left == r.val[1]
                     right == r.val[2]
                     At(k) == AddrGetItem(code, addr, k)
                     OpcodeAt(k) == IF IsAddr(At(k)) THEN Opcode(code, At(k)) ELSE Raised
                     next_start_except == jump(code, At(1))
                     d1 == [d EXCEPT !.stack = r.s,
                                     !.heap = IF left.kind = "TryStatement"
                                              THEN [@ EXCEPT ![left.id].next_start_except =
                                                                 <<next_start_except>>]
                                              ELSE @]
                 IN  IF r.exc THEN Raise(d)
                     ELSE IF OpcodeAt(1) # POP_JUMP_IF_FALSE THEN Raise(d)
                     ELSE IF next_start_except = Raised THEN Raise(d)
                     ELSE IF OpcodeAt(2) # POP_TOP \/ OpcodeAt(4) # POP_TOP THEN Raise(d)
                     ELSE IF OpcodeAt(5) = Raised THEN Raise(d)
                     ELSE StartSub(d1,
                                   IF OpcodeAt(5) = SETUP_FINALLY THEN At(6) ELSE At(5),
                                   IF OpcodeAt(5) = SETUP_FINALLY THEN jump(code, At(5))
                                   ELSE AddrGetItem(code, next_start_except, -1),
                                   EmptyStack, FALSE,
                                   [kind |-> "COMPARE_OP d_body", left |-> left,
                                    right |-> right, addr |-> addr]))
    /\ UNCHANGED Others

\* COMPARE_OP 10 from the return of d_body.run() on
Resume_COMPARE_OP_d_body ==
    /\ Returned("COMPARE_OP d_body")
    /\ LET d == Ctx(Waiting)
           w == Waiting.wait
           d_body == Top
       IN  After(Outer,
                 IF w.left.kind # "TryStatement" THEN Raise(d)
                 ELSE LET d1 == [d EXCEPT !.heap[w.left.id] =
                                     add_except_clause(@, <<w.right>>, d_body.suite)]
                      IN  IF Opcode(code, AddrGetItem(code, w.addr, 3)) # POP_TOP
                          THEN StartSub(d1, AddrGetItem(code, w.addr, 3),
                                        AddrGetItem(code, w.addr, 4),
                                        push(EmptyStack, <<w.left>>), FALSE,
                                        [kind |-> "COMPARE_OP d_exc_name"])
                          ELSE Return(d1, END_NOW))
    /\ UNCHANGED Others

\* COMPARE_OP 10 from the return of d_exc_name.run() on
Resume_COMPARE_OP_d_exc_name ==
    /\ Returned("COMPARE_OP d_exc_name")
    /\ After(Outer, Return(Ctx(Waiting), END_NOW))
    /\ UNCHANGED Others

\* SETUP_WITH up to d_with.run()
Run_SETUP_WITH ==
    /\ Dispatch(SETUP_WITH)
    /\ LET d == Ctx(Top)
           addr == Top.addr
           delta == Arg(code, Top.addr)
       IN  After(frames,
                 LET end_with == jump(code, addr)
                     r == pop(d.stack, None)
                     with_stmt == Ref(d.next_id, "WithStatement")
                 IN  IF end_with = Raised \/ r.exc THEN Raise(d)
                     ELSE StartSub([d EXCEPT !.stack = r.s,
                                             !.heap = (with_stmt.id :> WithStatement(r.val)) @@ @,
                                             !.next_id = @ + 1],
                                   AddrGetItem(code, addr, 1), end_with,
                                   push(EmptyStack, <<with_stmt>>), FALSE,
                                   [kind |-> "SETUP_WITH", with_stmt |-> with_stmt,
                                    end_with |-> end_with]))
    /\ UNCHANGED Others

\* SETUP_WITH from the return of d_with.run() on
Resume_SETUP_WITH ==
    /\ Returned("SETUP_WITH")
    /\ LET d == Ctx(Waiting)
           w == Waiting.wait
           d_with == Top
       IN  After(Outer,
                 IF ~IsAddr(w.end_with) THEN Raise(d)
                 ELSE IF Opcode(code, w.end_with) # WITH_CLEANUP THEN Raise(d)
                 ELSE IF ~IsAddr(AddrGetItem(code, w.end_with, 1)) THEN Raise(d)
                 ELSE IF Opcode(code, AddrGetItem(code, w.end_with, 1)) # END_FINALLY
                 THEN Raise(d)
                 ELSE Return([d EXCEPT !.suite =
                                 Append(@, WithStatementOf(d.heap[w.with_stmt.id],
                                                           d_with.suite))],
                             AddrGetItem(code, w.end_with, 2)))
    /\ UNCHANGED Others

\* FOR_ITER up to d_body.run()
Run_FOR_ITER ==
    /\ Dispatch(FOR_ITER)
    /\ LET d == Ctx(Top)
           addr == Top.addr
           delta == Arg(code, Top.addr)
       IN  After(frames,
                 LET r == pop(d.stack, None)
                     jump_addr == jump(code, addr)
                     for_stmt == Ref(d.next_id, "ForStatement")
                 IN  IF r.exc \/ jump_addr = Raised THEN Raise(d)
                     ELSE StartSub([d EXCEPT !.stack = r.s,
                                             !.heap = (for_stmt.id :> ForStatement(r.val)) @@ @,
                                             !.next_id = @ + 1],
                                   AddrGetItem(code, addr, 1), AddrGetItem(code, jump_addr, -1),
                                   push(EmptyStack, <<for_stmt>>), FALSE,
                                   [kind |-> "FOR_ITER", for_stmt |-> for_stmt,
                                    jump_addr |-> jump_addr]))
    /\ UNCHANGED Others

\* FOR_ITER from the return of d_body.run() on
Resume_FOR_ITER ==
    /\ Returned("FOR_ITER")
    /\ LET d == Ctx(Waiting)
           w == Waiting.wait
           d_body == Top
       IN  After(Outer,
                 Return([d EXCEPT !.suite =
                             Append(@, ForStatementOf(d.heap[w.for_stmt.id], d_body.suite))],
                        w.jump_addr))
    /\ UNCHANGED Others

\* JUMP_IF_FALSE_OR_POP up to d.run()
Run_JUMP_IF_FALSE_OR_POP ==
    /\ Dispatch(JUMP_IF_FALSE_OR_POP)
    /\ LET d == Ctx(Top)
           addr == Top.addr
           target == Arg(code, Top.addr)
       IN  After(frames,
                 LET end_addr == jump(code, addr)
                     r == pop(d.stack, None)
                     d1 == IF r.exc THEN Raise(d)
                           ELSE push_popjump([d EXCEPT !.stack = r.s], TRUE, end_addr, r.val)
                 IN  IF end_addr = Raised \/ d1.exc THEN Raise(d)
                     ELSE LET left == pop_popjump(d1)
                              d2 == pop_popjump_rest(d1)
                              before == AddrGetItem(code, end_addr, -1)
                          IN  IF Opcode(code, end_addr) = ROT_TWO
                              THEN IF before = None THEN Raise(d)
                                   ELSE StartSub(d2, AddrGetItem(code, addr, 1),
                                                 IF Opcode(code, before) = JUMP_FORWARD
                                                    /\ Arg(code, before) = 2
                                                 THEN AddrGetItem(code, end_addr, 2)
                                                 ELSE end_addr,
                                                 d2.stack, TRUE,
                                                 [kind |-> "JUMP_IF_FALSE_OR_POP", left |-> left,
                                                  end_addr |->
                                                     IF Opcode(code, before) = JUMP_FORWARD
                                                        /\ Arg(code, before) = 2
                                                     THEN AddrGetItem(code, end_addr, 2)
                                                     ELSE end_addr])
                              ELSE StartSub(d2, AddrGetItem(code, addr, 1), end_addr,
                                            d2.stack, TRUE,
                                            [kind |-> "JUMP_IF_FALSE_OR_POP", left |-> left,
                                             end_addr |-> end_addr]))
    /\ UNCHANGED Others

\* JUMP_IF_FALSE_OR_POP from the return of d.run() on
Resume_JUMP_IF_FALSE_OR_POP ==
    /\ Returned("JUMP_IF_FALSE_OR_POP")
    /\ LET d == Ctx(Waiting)
           w == Waiting.wait
       IN  After(Outer,
                 LET r == pop(d.stack, None)
                     right == r.val
                     py_and == IF right.kind = "PyCompare" /\ extends(right, w.left)
                               THEN chain(d.next_id, w.left, right)
                               ELSE PyBooleanAnd(d.next_id, w.left, right)
                 IN  IF r.exc THEN Raise(d)
                     ELSE Return([d EXCEPT !.stack = push(r.s, <<py_and>>), !.next_id = @ + 1],
                                 w.end_addr))
    /\ UNCHANGED Others

\* JUMP_IF_TRUE_OR_POP up to d.run()
Run_JUMP_IF_TRUE_OR_POP ==
    /\ Dispatch(JUMP_IF_TRUE_OR_POP)
    /\ LET d == Ctx(Top)
           addr == Top.addr
           target == Arg(code, Top.addr)
       IN  After(frames,
                 LET end_addr == jump(code, addr)
                     r == pop(d.stack, None)
                     d1 == IF r.exc THEN Raise(d)
                           ELSE push_popjump([d EXCEPT !.stack = r.s], TRUE, end_addr, r.val)
                 IN  IF end_addr = Raised \/ d1.exc THEN Raise(d)
                     ELSE StartSub(pop_popjump_rest(d1), AddrGetItem(code, addr, 1), end_addr,
                                   d1.stack, TRUE,
                                   [kind |-> "JUMP_IF_TRUE_OR_POP", left |-> pop_popjump(d1),
                                    end_addr |-> end_addr]))
    /\ UNCHANGED Others

\* JUMP_IF_TRUE_OR_POP from the return of d.run() on
Resume_JUMP_IF_TRUE_OR_POP ==
    /\ Returned("JUMP_IF_TRUE_OR_POP")
    /\ LET d == Ctx(Waiting)
           w == Waiting.wait
       IN  After(Outer,
                 LET r == pop(d.stack, None)
                 IN  IF r.exc THEN Raise(d)
                     ELSE Return([d EXCEPT !.stack =
                                               push(r.s, <<PyBooleanOr(d.next_id, w.left, r.val)>>),
                                           !.next_id = @ + 1],
                                 w.end_addr))
    /\ UNCHANGED Others

Run_POP_JUMP_IF_FALSE ==
    /\ Dispatch(POP_JUMP_IF_FALSE)
    /\ After(frames,
             handle_POP_JUMP_IF(Ctx(Top), Top.addr, Arg(code, Top.addr), FALSE))
    /\ UNCHANGED Others

Run_POP_JUMP_IF_TRUE ==
    /\ Dispatch(POP_JUMP_IF_TRUE)
    /\ After(frames,
             handle_POP_JUMP_IF(Ctx(Top), Top.addr, Arg(code, Top.addr), TRUE))
    /\ UNCHANGED Others

\* POP_JUMP_IF from the return of d_true.run() on, the true clause ending in
\* RETURN_VALUE or RAISE_VARARGS.
Resume_POP_JUMP_IF_return ==
    /\ Returned("POP_JUMP_IF return")
    /\ LET d == Ctx(Waiting)
           w == Waiting.wait
           d_true == Top
       IN  After(Outer,
                 Return([d EXCEPT !.suite = Append(@, IfStatement(w.cond, d_true.suite, <<>>))],
                        w.jump_addr))
    /\ UNCHANGED Others

\* POP_JUMP_IF from the return of d_true.run() to d_false.run(), or to its
\* return for a while loop.
Resume_POP_JUMP_IF_d_true ==
    /\ Returned("POP_JUMP_IF d_true")
    /\ LET d == Ctx(Waiting)
           w == Waiting.wait
           d_true == Top
       IN  After(Outer,
                 IF Opcode(code, w.jump_addr) = POP_BLOCK
                 THEN Return([d EXCEPT !.suite = Append(@, WhileStatement(w.cond, d_true.suite))],
                             AddrGetItem(code, w.jump_addr, 1))
                 ELSE LET end_false == pop_jump_if_end_false(w.end_true)
                      IN  StartSub(d, w.jump_addr, end_false, EmptyStack, FALSE,
                                   [kind |-> "POP_JUMP_IF d_false", cond |-> w.cond,
                                    jump_addr |-> w.jump_addr, end_true |-> w.end_true,
                                    d_true |-> [stack |-> d_true.stack, suite |-> d_true.suite],
                                    end_false |-> end_false]))
    /\ UNCHANGED Others

Resume_POP_JUMP_IF_d_false ==
    /\ Returned("POP_JUMP_IF d_false")
    /\ After(Outer, resume_POP_JUMP_IF_d_false(Ctx(Waiting), Waiting.wait, Top))
    /\ UNCHANGED Others

\* get_suite from the return of dec.run() on: the statements of dec.suite,
\* after a global statement when the unit declared global names and a
\* nonlocal statement when it declared nonlocal names.
get_suite ==
    /\ status = "running"
    /\ Len(frames) = 1
    /\ InRun(Top)
    /\ ~Running(Top)
    /\ status' = "returned"
    /\ result' =
          (IF code.globals = <<>> THEN <<>>
           ELSE <<SimpleStatement(
                     <<"global">> \o
                     JoinTokens(<<",">>, [i \in DOMAIN code.globals |->
                                             <<code.globals[i].name>>]))>>)
          \o (IF code.nonlocals = <<>> THEN <<>>
              ELSE <<SimpleStatement(
                        <<"nonlocal">> \o
                        JoinTokens(<<",">>, [i \in DOMAIN code.nonlocals |->
                                                <<code.nonlocals[i].name>>]))>>)
          \o Top.suite
    /\ UNCHANGED <<frames, heap, next_id>>
    /\ UNCHANGED Others

\* A line of an IndentString: the indent level it was written at, and its
\* text as tokens (no token for the empty line of sep()).
Line(level, text) == [level |-> level, text |-> text]

\* The decorator lines of DecorableStatement.display written in the order of
\* self.decorators.
decorator_lines_in_order(decorators) ==
    [i \in DOMAIN decorators |-> Line(0, <<"@">> \o Str(decorators[i]))]

\* for f in reversed(self.decorators): indent.write("@{}", f)
decorator_lines(decorators) ==
    [i \in DOMAIN decorators |->
        Line(0, <<"@">> \o Str(decorators[Len(decorators) - i + 1]))]

\* str(stmt) for a DefStatement stmt of the suite that get_suite returned:
\* DecorableStatement.display on a fresh IndentString, whose sep() appends
\* the empty line when there is no line yet or the last one is not empty.
\* For a function without parameters whose code is LOAD_CONST None;
\* RETURN_VALUE: there is no docstring, and get_suite on that code returns
\* the empty suite, displayed as pass.
PyStatement_str ==
    /\ status = "returned"
    /\ rendered = <<>>
    /\ \E i \in DOMAIN result :
          /\ result[i].kind = "DefStatement"
          /\ LET self == heap[result[i].exprs[1].id]
                 c == heap[self.code]
             IN  /\ [k \in DOMAIN c.instr_seq |-> c.instr_seq[k].opcode]
                       = <<LOAD_CONST, RETURN_VALUE>>
                 /\ c.consts[c.instr_seq[1].arg + 1].name = "None"
                 /\ rendered' =
                       <<Line(0, <<>>)>>
                       \o decorator_lines(self.decorators)
                       \o <<Line(0, <<"def", c.name, "(", ")", ":">>),
                            Line(1, <<"pass">>),
                            Line(0, <<>>)>>
    /\ UNCHANGED <<code, stackVars, addrVars, tree, decVars>>

Next ==
    \/ Run_POP_TOP
    \/ Run_ROT_TWO
    \/ Run_ROT_THREE
    \/ Run_DUP_TOP
    \/ Run_GET_ITER
    \/ Run_RETURN_VALUE
    \/ Run_POP_BLOCK
    \/ Run_UNPACK_SEQUENCE
    \/ Run_UNPACK_EX
    \/ Run_LOAD_CONST
    \/ Run_LOAD_FAST
    \/ Run_STORE_FAST
    \/ Run_LOAD_GLOBAL
    \/ Run_STORE_GLOBAL
    \/ Run_DELETE_GLOBAL
    \/ Run_STORE_DEREF
    \/ Run_DELETE_DEREF
    \/ Run_CALL_FUNCTION
    \/ Run_MAKE_FUNCTION
    \/ Run_COMPARE_OP
    \/ Run_JUMP_FORWARD
    \/ Run_JUMP_ABSOLUTE
    \/ Run_SETUP_LOOP
    \/ Run_RAISE_VARARGS
    \/ Run_POP_EXCEPT
    \/ Run_SETUP_EXCEPT
    \/ Resume_SETUP_EXCEPT_d_try
    \/ Scan_SETUP_EXCEPT
    \/ Resume_SETUP_EXCEPT_d_except
    \/ Resume_SETUP_EXCEPT_bare
    \/ Run_COMPARE_OP_match
    \/ Resume_COMPARE_OP_d_body
    \/ Resume_COMPARE_OP_d_exc_name
    \/ Run_SETUP_WITH
    \/ Resume_SETUP_WITH
    \/ Run_FOR_ITER
    \/ Resume_FOR_ITER
    \/ Run_JUMP_IF_FALSE_OR_POP
    \/ Resume_JUMP_IF_FALSE_OR_POP
    \/ Run_JUMP_IF_TRUE_OR_POP
    \/ Resume_JUMP_IF_TRUE_OR_POP
    \/ Run_POP_JUMP_IF_FALSE
    \/ Run_POP_JUMP_IF_TRUE
    \/ Resume_POP_JUMP_IF_return
    \/ Resume_POP_JUMP_IF_d_true
    \/ Resume_POP_JUMP_IF_d_false
    \/ get_suite
    \/ PyStatement_str

Spec == DecInit /\ [][Next]_vars

\* SpecScan: get_suite on the units that hold a SETUP_EXCEPT, module-level
\* ones, with the handlers that these units reach.  get_suite is one call on
\* one thread: whenever it has a step to take, it takes it.
ScanUnits == { u \in Units : u.co_name \in {"try", "try_other"} }

ScanNext ==
    \/ Run_LOAD_FAST
    \/ Run_STORE_FAST
    \/ Run_LOAD_CONST
    \/ Run_POP_BLOCK
    \/ Run_RETURN_VALUE
    \/ Run_POP_EXCEPT
    \/ Run_SETUP_EXCEPT
    \/ Resume_SETUP_EXCEPT_d_try
    \/ Scan_SETUP_EXCEPT
    \/ Resume_SETUP_EXCEPT_d_except
    \/ Resume_SETUP_EXCEPT_bare
    \/ Run_COMPARE_OP_match
    \/ Resume_COMPARE_OP_d_body
    \/ Resume_COMPARE_OP_d_exc_name
    \/ get_suite

SpecScan == GetSuiteOn(ScanUnits, {<<>>}) /\ [][ScanNext]_vars /\ WF_vars(ScanNext)

----------------------------------------------------------------------------
(* Claims about Stack, checked under SpecStack.                            *)

\* The stack positions of s that hold the object obj (the same instance).
Positions(s, obj) == { i \in DOMAIN s._stack : s._stack[i].id = obj.id }

\* C7: after any sequence of push, pop and pop(n) the count recorded for each
\* object instance is the number of stack positions holding that instance, no
\* recorded count is negative, and `obj in stack` is true exactly when some
\* position holds the instance.
C7_CountsMatchPositions ==
    /\ \A o \in Objs :
        /\ get_count(stack, o) = Cardinality(Positions(stack, o))
        /\ Contains(stack, o) <=> Positions(stack, o) # {}
    /\ \A k \in DOMAIN stack._counts : stack._counts[k] >= 0

\* A pop has left an instance on the stack twice.
C7_Witness ==
    /\ last.name = "pop"
    /\ \E o \in Objs : Cardinality(Positions(stack, o)) = 2

\* C8: pop(n), 0 <= n <= size, removes exactly the top n items and returns
\* them bottom-to-top, so pushing them back restores the stack and its
\* counts; pop(0) returns the empty list and changes nothing.
C8_PopNRestores ==
    (last.name = "pop" /\ last.arg # None /\ last.arg <= StackLen(last.pre)) =>
        LET n == last.arg
            old == last.pre._stack
        IN  /\ ~last.exc
            /\ last.val = SubSeq(old, Len(old) - n + 1, Len(old))
            /\ stack._stack = SubSeq(old, 1, Len(old) - n)
            /\ push(stack, last.val) = last.pre
            /\ n = 0 => (last.val = <<>> /\ stack = last.pre)

\* pop(2) has returned two different instances.
C8_Witness ==
    /\ last.name = "pop"
    /\ last.arg = 2
    /\ ~last.exc
    /\ last.val[1].id # last.val[2].id

\* C9: peek() returns the top item and peek(n), 0 <= n <= size, returns
\* exactly the top n items bottom-to-top; neither changes the stack or a count.
C9_PeekReturnsTopN ==
    last.name = "peek" =>
        LET old == last.pre._stack
        IN  /\ stack = last.pre
            /\ (last.arg = None /\ old # <<>>) => last.val = Last(old)
            /\ (last.arg # None /\ last.arg <= Len(old)) =>
                   last.val = SubSeq(old, Len(old) - last.arg + 1, Len(old))

----------------------------------------------------------------------------
(* Claims about Address, checked under SpecAddr.                           *)

\* The byte position a jump instruction at index i names: the successor's
\* position plus the argument (relative), the argument (absolute); Raised
\* when a relative jump has no successor.
JumpPosition(c, i) ==
    IF Opcode(c, i) \in hasjrel
    THEN IF i + 1 < Len(c.instr_seq)
         THEN c.instr_seq[i + 2].addr + Arg(c, i)
         ELSE Raised
    ELSE Arg(c, i)

\* C10: Address.jump() of a relative-offset opcode is the address of the
\* instruction at (position of the next instruction + argument), of an
\* absolute-offset opcode the address of the instruction at the argument; the
\* result is an address of the same unit.
C10_JumpResolves ==
    (acall.name = "jump" /\ Opcode(code, acall.index) \in hasjrel \cup hasjabs) =>
        LET want == JumpPosition(code, acall.index)
            n == Len(code.instr_seq)
        IN  /\ \A j \in 0..(n - 1) :
                   code.instr_seq[j + 1].addr = want => acall.val = j
            /\ IsAddr(acall.val) =>
                   /\ acall.val \in 0..(n - 1)
                   /\ code.instr_seq[acall.val + 1].addr = want

\* A relative jump over at least one byte has resolved.
C10_Witness ==
    /\ acall.name = "jump"
    /\ Opcode(code, acall.index) = JUMP_FORWARD
    /\ Arg(code, acall.index) > 0
    /\ IsAddr(acall.val)

\* C11: a jump fails by returning the empty Address (None), and only then,
\* when the byte position it names starts no instruction of the unit.
C11_JumpFailsWithNone ==
    (acall.name = "jump" /\ Opcode(code, acall.index) \in hasjrel \cup hasjabs) =>
        LET want == JumpPosition(code, acall.index)
            starts == { code.instr_seq[j].addr : j \in DOMAIN code.instr_seq }
        IN  (acall.val = None) <=> (want \notin starts)

\* C12: addr[k] of the address of index i is the address of index i + k when
\* 0 <= i + k < number of instructions, and the empty Address (None)
\* otherwise; a negative i + k never counts from the end.
C12_OffsetByInstructions ==
    acall.name = "getitem" =>
        LET t == acall.index + acall.arg
        IN  IF 0 <= t /\ t < Len(code.instr_seq)
            THEN acall.val = t
            ELSE acall.val = None

\* addr[k] with k leading before the first instruction has returned None.
C12_Witness ==
    /\ acall.name = "getitem"
    /\ acall.index + acall.arg < 0
    /\ acall.val = None

\* C13: the decoded sequence starts at position 0; an instruction whose
\* opcode is >= HAVE_ARGUMENT takes 3 bytes and has the argument
\* byte1 + 256 * byte2, any other takes 1 byte and has no argument; each
\* instruction starts where the one before ends, the last ends with co_code;
\* instr_map sends every decoded position to its index and holds no other
\* position.
C13_InstructionDecoding ==
    LET seq == code.instr_seq
        bytes == code.code_obj.co_code
        n == Len(seq)
        End(i) == IF i < n THEN seq[i + 1].addr ELSE Len(bytes)
    IN  /\ n > 0 => seq[1].addr = 0
        /\ n = 0 => bytes = <<>>
        /\ \A i \in 1..n :
               LET a == seq[i].addr
               IN  /\ seq[i].opcode = bytes[a + 1]
                   /\ IF bytes[a + 1] >= HAVE_ARGUMENT
                      THEN /\ End(i) = a + 3
                           /\ seq[i].arg = bytes[a + 2] + 256 * bytes[a + 3]
                      ELSE /\ End(i) = a + 1
                           /\ seq[i].arg = None
        /\ DOMAIN code.instr_map = { seq[i].addr : i \in 1..n }
        /\ \A i \in 1..n : code.instr_map[seq[i].addr] = i - 1

\* A unit with a one-byte instruction and, after it, an instruction whose
\* argument has a high byte has been decoded.
C13_Witness ==
    \E i \in DOMAIN code.instr_seq :
        /\ i > 1
        /\ code.instr_seq[i - 1].arg = None
        /\ code.instr_seq[i].arg = 257

\* The marking rule for the conditional jump at index i: the instruction
\* before its target is a JUMP_FORWARD, JUMP_ABSOLUTE, RETURN_VALUE,
\* SETUP_LOOP or RAISE_VARARGS, or its target is a FOR_ITER.
MeetsMarkingRule(c, i) ==
    /\ Opcode(c, i) \in {POP_JUMP_IF_TRUE, POP_JUMP_IF_FALSE}
    /\ Arg(c, i) \in DOMAIN c.instr_map
    /\ LET t == c.instr_map[Arg(c, i)]
       IN  \/ /\ t >= 1
              /\ Opcode(c, t - 1) \in {JUMP_FORWARD, JUMP_ABSOLUTE, RETURN_VALUE,
                                        SETUP_LOOP, RAISE_VARARGS}
           \/ Opcode(c, t) = FOR_ITER

\* The indices of the unit.
Indices(c) == 0..(Len(c.instr_seq) - 1)

----------------------------------------------------------------------------
(* Claims about rendering, checked under SpecExpr.                          *)
(* The reference is a parser of the expression grammar of Python 3.2:       *)
(*   test: or_test ['if' or_test 'else' test]                               *)
(*   or_test: and_test ('or' and_test)*    and_test: not_test ('and' ...)*  *)
(*   not_test: 'not' not_test | comparison                                  *)
(*   comparison: expr (comp_op expr)*                                       *)
(*   expr ... term: left-associative binary operators                       *)
(*   factor: ('+'|'-'|'~') factor | power    power: atom ['**' factor]      *)
(* Each level has a number, larger for tighter binding.                     *)

\* The shape of a tree: the operator and the shapes of the operands.
ShapeOf(op, kids) == [op |-> op, kids |-> kids]
SyntaxError == ShapeOf("SyntaxError", <<>>)

\* The shape of an expression object.
RECURSIVE Shape(_)
Shape(x) ==
    CASE x.kind \in {"PyConst", "PyName", "cmp_op"} -> ShapeOf(x.name, <<>>)
      [] x.kind \in UnaryKinds ->
            ShapeOf(UnaryOf(x.kind).ptn, <<Shape(x.args[1])>>)
      [] x.kind \in BinaryKinds ->
            ShapeOf(BinaryOf(x.kind).ptn, <<Shape(x.args[1]), Shape(x.args[2])>>)
      [] x.kind = "PyCompare" ->
            ShapeOf("compare", [i \in DOMAIN x.args |-> Shape(x.args[i])])
      [] x.kind = "PyIfElse" ->
            ShapeOf("ifelse", [i \in DOMAIN x.args |-> Shape(x.args[i])])

\* The level of a left-associative binary operator token, 0 for any other token.
LeftAssocLevel(tok) ==
    CASE tok = "or" -> 2
      [] tok = "and" -> 3
      [] tok = "|" -> 6
      [] tok = "^" -> 7
      [] tok = "&" -> 8
      [] tok \in {"<<", ">>"} -> 9
      [] tok \in {"+", "-"} -> 10
      [] tok \in {"*", "/", "//", "%"} -> 11
      [] OTHER -> 0

CompOps == {"<", "<=", "==", "!=", ">", ">=", "in", "is"}
Atoms == {"x", "a", "b", "c", "d"}

Tok(toks, pos) == IF pos <= Len(toks) THEN toks[pos] ELSE "<eof>"
Parsed(t, pos) == [t |-> t, pos |-> pos, ok |-> TRUE]
Failed(pos) == [t |-> SyntaxError, pos |-> pos, ok |-> FALSE]

\* ParseAt: an expression of level >= min from position pos on.
\* ParseInfix: the operators that follow the operand lhs at that level.
\* ParseChain: the rest of a comparison chain whose complist so far is kids.
RECURSIVE ParseAt(_, _, _)
RECURSIVE ParseInfix(_, _, _)
RECURSIVE ParseChain(_, _, _)

ParsePrefix(toks, pos, min) ==
    LET tok == Tok(toks, pos)
    IN  IF tok = "("
        THEN LET inner == ParseAt(toks, pos + 1, 1)
             IN  IF inner.ok /\ Tok(toks, inner.pos) = ")"
                 THEN Parsed(inner.t, inner.pos + 1)
                 ELSE Failed(pos)
        ELSE IF tok \in {"-", "+", "~"}
        THEN LET operand == ParseAt(toks, pos + 1, 12)
             IN  IF operand.ok
                 THEN Parsed(ShapeOf(tok, <<operand.t>>), operand.pos)
                 ELSE Failed(pos)
        ELSE IF tok = "not"
        THEN IF min > 4 THEN Failed(pos)
             ELSE LET operand == ParseAt(toks, pos + 1, 4)
                  IN  IF operand.ok
                      THEN Parsed(ShapeOf(tok, <<operand.t>>), operand.pos)
                      ELSE Failed(pos)
        ELSE IF tok \in Atoms THEN Parsed(ShapeOf(tok, <<>>), pos + 1)
        ELSE Failed(pos)

ParseChain(toks, kids, pos) ==
    IF Tok(toks, pos) \notin CompOps
    THEN Parsed(ShapeOf("compare", kids), pos)
    ELSE LET operand == ParseAt(toks, pos + 1, 6)
         IN  IF operand.ok
             THEN ParseChain(toks,
                             kids \o <<ShapeOf(Tok(toks, pos), <<>>), operand.t>>,
                             operand.pos)
             ELSE Failed(pos)

ParseInfix(toks, lhs, min) ==
    LET tok == Tok(toks, lhs.pos)
        level == LeftAssocLevel(tok)
    IN  IF level > 0 /\ level >= min
        THEN LET rhs == ParseAt(toks, lhs.pos + 1, level + 1)
             IN  IF rhs.ok
                 THEN ParseInfix(toks, Parsed(ShapeOf(tok, <<lhs.t, rhs.t>>), rhs.pos),
                                 min)
                 ELSE Failed(lhs.pos)
        ELSE IF tok = "**" /\ 13 >= min
        THEN LET rhs == ParseAt(toks, lhs.pos + 1, 12)
             IN  IF rhs.ok
                 THEN ParseInfix(toks, Parsed(ShapeOf(tok, <<lhs.t, rhs.t>>), rhs.pos),
                                 min)
                 ELSE Failed(lhs.pos)
        ELSE IF tok \in CompOps /\ 5 >= min
        THEN LET rest == ParseChain(toks, <<lhs.t>>, lhs.pos)
             IN  IF rest.ok THEN ParseInfix(toks, rest, min) ELSE rest
        ELSE IF tok = "if" /\ 1 >= min
        THEN LET cond == ParseAt(toks, lhs.pos + 1, 2)
             IN  IF cond.ok /\ Tok(toks, cond.pos) = "else"
                 THEN LET other == ParseAt(toks, cond.pos + 1, 1)
                      IN  IF other.ok
                          THEN Parsed(ShapeOf("ifelse", <<cond.t, lhs.t, other.t>>),
                                      other.pos)
                          ELSE Failed(lhs.pos)
                 ELSE Failed(lhs.pos)
        ELSE lhs

ParseAt(toks, pos, min) ==
    LET first == ParsePrefix(toks, pos, min)
    IN  IF first.ok THEN ParseInfix(toks, first, min) ELSE first

\* The shape of the text as Python parses it.
Parse(toks) ==
    LET r == ParseAt(toks, 1, 1)
    IN  IF r.ok /\ r.pos = Len(toks) + 1 THEN r.t ELSE SyntaxError

\* C4: rendering an expression tree and parsing the text again with the
\* language's precedence and associativity yields the tree's own shape.
C4_RenderParsesBack ==
    rendered # <<>> => Parse(rendered) = Shape(tree)

\* The rendering by the parenthesization rule: a child is wrapped when its own
\* precedence is lower than its parent's, or equal to it in a position that
\* needs the tighter grouping (the right operand of a binary operator, an
\* operand of a comparison, an element of a tuple, the condition and the true
\* branch of a conditional expression).
RECURSIVE RuleStr(_)
RuleStr(x) ==
    LET Child(i, tight) ==
            wrap(RuleStr(x.args[i]),
                 IF tight THEN precedence(x.args[i]) <= precedence(x)
                 ELSE precedence(x.args[i]) < precedence(x))
    IN  CASE x.kind \in {"PyConst", "PyName", "cmp_op"} -> <<x.name>>
          [] x.kind = "PyTuple" ->
                IF x.args = <<>> THEN <<"(", ")">>
                ELSE IF Len(x.args) = 1 THEN Child(1, TRUE) \o <<",">>
                ELSE JoinTokens(<<",">>, [i \in DOMAIN x.args |-> Child(i, TRUE)])
          [] x.kind \in UnaryKinds -> <<UnaryOf(x.kind).ptn>> \o Child(1, FALSE)
          [] x.kind \in BinaryKinds ->
                Child(1, FALSE) \o <<BinaryOf(x.kind).ptn>> \o Child(2, TRUE)
          [] x.kind = "PyCompare" ->
                JoinTokens(<<>>, [i \in DOMAIN x.args |->
                                    IF (i - 1) % 2 = 1 THEN <<x.args[i].name>>
                                    ELSE Child(i, TRUE)])
          [] x.kind = "PyIfElse" ->
                Child(2, TRUE) \o <<"if">> \o Child(1, TRUE) \o <<"else">>
                    \o Child(3, FALSE)
          [] x.kind = "PyStarred" -> <<"*">> \o Child(1, FALSE)

\* C16: in the rendering of any node each child is in parentheses if and
\* only if its own precedence is lower than the parent's (or equal to it in
\* a position that needs the tighter grouping), whatever the precedence of
\* its siblings; the three children of a conditional expression included.
C16_ChildPrecedenceDecides ==
    rendered # <<>> => rendered = RuleStr(tree)

----------------------------------------------------------------------------
(* Claims about the reconstruction, checked under Spec.                     *)

\* The tokens of the rendering of an expression.
Tokens(x) == { Str(x)[k] : k \in DOMAIN Str(x) }

\* The units whose source is a chain of three operands joined by one boolean
\* operator: as a value, and as the condition of an if or a while.
BoolChainUnits == {"and_value", "or_value", "if_and", "if_or", "while_and"}

\* C1: a chain of three operands joined by the same boolean operator is
\* reconstructed so that its rendering has no parentheses, as a condition and
\* as a value.
C1_BoolChainNoParentheses ==
    (status = "returned" /\ code.name \in BoolChainUnits) =>
        \A i \in DOMAIN result : \A j \in DOMAIN result[i].exprs :
            "(" \notin Tokens(result[i].exprs[j])

\* x holds a boolean-and of two comparisons, the right one starting with the
\* operand the left one ends with.
RECURSIVE HasUnmergedAnd(_)
HasUnmergedAnd(x) ==
    \/ /\ x.kind = "PyBooleanAnd"
       /\ x.args[1].kind = "PyCompare"
       /\ x.args[2].kind = "PyCompare"
       /\ PyEq(x.args[2].args[1], Last(x.args[1].args))
    \/ \E i \in DOMAIN x.args : HasUnmergedAnd(x.args[i])

RECURSIVE SuiteHasUnmergedAnd(_)
SuiteHasUnmergedAnd(suite) ==
    \E i \in DOMAIN suite :
        \/ \E j \in DOMAIN suite[i].exprs : HasUnmergedAnd(suite[i].exprs[j])
        \/ \E j \in DOMAIN suite[i].suites : SuiteHasUnmergedAnd(suite[i].suites[j])

\* C2: on every path that builds a boolean-and, two comparisons that share
\* the middle operand come out as one comparison chain, never as a
\* boolean-and node.
C2_ComparisonsMerged ==
    status = "returned" => ~SuiteHasUnmergedAnd(result)

\* The innermost decompiler is about to store into an accumulator: the
\* handler of STORE_FAST runs with an Unpack on top of the stack.
AccStore ==
    /\ Dispatch(STORE_FAST)
    /\ Top.stack._stack # <<>>
    /\ Last(Top.stack._stack).kind = "Unpack"
    /\ Arg(code, Top.addr) + 1 \in DOMAIN code.varnames

Acc == heap[Last(Top.stack._stack).id]
AccDest == code.varnames[Arg(code, Top.addr) + 1]

\* targets is dests followed by dest, the one at star_index starred.
IsNextDests(targets, dests, dest, star_index) ==
    /\ Len(targets) = Len(dests) + 1
    /\ SubSeq(targets, 1, Len(dests)) = dests
    /\ IF Len(dests) = star_index
       THEN Last(targets).kind = "PyStarred" /\ Last(targets).args = <<dest>>
       ELSE Last(targets) = dest

\* t is one tuple of the targets of the accumulator in store order.
IsAccTuple(t) ==
    /\ t.kind = "PyTuple"
    /\ IsNextDests(t.args, Acc.dests, AccDest, Acc.star_index)

Caller == frames[Len(frames) - 1]

\* The handler of an else-jump whose true clause ends in JUMP_FORWARD or
\* JUMP_ABSOLUTE returns in this step.
PopJumpIfEnds ==
    /\ \/ Returned("POP_JUMP_IF d_true")
       \/ Returned("POP_JUMP_IF d_false")
    /\ Opcode(code, Caller.wait.end_true) \in {JUMP_FORWARD, JUMP_ABSOLUTE}
    /\ status' = "running" => Len(frames') = Len(frames) - 1

\* The decompiler of the handler, as the step leaves it.
CallerAfter == frames'[Len(frames) - 1]

\* The step appended one statement of class kind and pushed nothing.
AppendedOnly(kind) ==
    /\ Front(CallerAfter.suite) = Caller.suite
    /\ Last(CallerAfter.suite).kind = kind
    /\ CallerAfter.stack = Caller.stack

\* The step pushed one conditional expression and appended nothing.
PushedIfElseOnly ==
    /\ CallerAfter.suite = Caller.suite
    /\ Front(CallerAfter.stack._stack) = Caller.stack._stack
    /\ Last(CallerAfter.stack._stack).kind = "PyIfElse"

C6_LeftoversAbort ==
    status = "returned" =>
        /\ Top.stack._stack = <<>>
        /\ \A id \in DOMAIN heap :
              heap[id].kind = "Unpack" => Len(heap[id].dests) = heap[id].length

----------------------------------------------------------------------------
(* Claims about the names a unit declares, checked under Spec.             *)

\* The identities of the code objects around c, at any depth.
AncestorIds(c, h) ==
    LET RECURSIVE up(_)
        up(id) == IF id = None THEN {} ELSE {id} \cup up(h[id].parent)
    IN  up(c.parent)

\* How often name occurs in the declared-global list of c.
TimesDeclared(c, name) ==
    Cardinality({ i \in DOMAIN c.globals : c.globals[i].name = name })

\* The name the instruction at the current address refers to in co_names.
NameAtTop == code.names[Arg(code, Top.addr) + 1].name

\* C19: LOAD_GLOBAL of a name adds it to the declared-global list of the unit
\* if and only if the name is a local name of a code object around the unit,
\* at any depth, and is not declared yet; the declared names stay a prefix of
\* the list, and no object other than the unit changes.
C19_LoadGlobalDeclares ==
    [][Dispatch(LOAD_GLOBAL) =>
          LET name == NameAtTop
              local_outside ==
                  \E id \in AncestorIds(code, heap) :
                      \E i \in DOMAIN heap[id].varnames :
                          heap[id].varnames[i].name = name
              adds == local_outside /\ TimesDeclared(code, name) = 0
          IN  /\ code'.globals =
                     IF adds THEN Append(code.globals, code.names[Arg(code, Top.addr) + 1])
                     ELSE code.globals
              /\ heap' = heap
              /\ code' = [code EXCEPT !.globals = code'.globals]]_vars

\* A unit two levels deep has read g, which is local in the outer code object
\* only, and has declared it.
C19_Witness ==
    /\ code.name = "load_global"
    /\ TimesDeclared(code, "g") = 1
    /\ Cardinality(AncestorIds(code, heap)) = 2
    /\ \A i \in DOMAIN heap[code.parent].varnames :
           heap[code.parent].varnames[i].name # "g"
    /\ Top.stack._stack # <<>>
    /\ Last(Top.stack._stack).name = "g"

\* C20: after STORE_GLOBAL or DELETE_GLOBAL of a name the name is in the
\* declared-global list of the unit exactly once, and the names declared
\* before are still there, in their order.
C20_StoreAndDeleteDeclare ==
    [][(Dispatch(STORE_GLOBAL) \/ Dispatch(DELETE_GLOBAL)) =>
          /\ TimesDeclared(code', NameAtTop) = 1
          /\ Len(code'.globals) >= Len(code.globals)
          /\ SubSeq(code'.globals, 1, Len(code.globals)) = code.globals]_vars

----------------------------------------------------------------------------
(* Claims about the instructions of the units, checked under Spec.         *)

\* The Code objects there are: the unit being decompiled under 0, the others
\* under their identities.
CodeIds(h) == {0} \cup { id \in DOMAIN h : h[id].kind = "Code" }
CodeOf(c, h, id) == IF id = 0 THEN c ELSE h[id]

\* The instructions of c as decoded from its co_code.
Decoded(c) == code_walker(c.code_obj.co_code)

\* The decoded instructions of c with the first and the last made NOP.
EndsMadeNop(c) ==
    [i \in DOMAIN Decoded(c) |->
        IF i \in {1, Len(Decoded(c))}
        THEN [Decoded(c)[i] EXCEPT !.opcode = NOP, !.arg = None]
        ELSE Decoded(c)[i]]

\* No step changes an instruction of a Code object that exists, and a Code
\* object that a step makes has its decoded instructions, with the first and
\* the last made NOP when its name is one of names.
InstructionsChangeOnlyFor(names) ==
    \A id \in CodeIds(heap') :
        IF id \in CodeIds(heap)
        THEN CodeOf(code', heap', id).instr_seq = CodeOf(code, heap, id).instr_seq
        ELSE heap'[id].instr_seq =
                IF heap'[id].name \in names THEN EndsMadeNop(heap'[id])
                ELSE Decoded(heap'[id])

\* C18 as stated: making the node of a nested unit named as a list, set or
\* dict comprehension or as a generator expression replaces exactly the first
\* and the last instruction of that unit by NOP, and nothing else changes an
\* instruction of any unit.
C18_CompAndGenExprPatched ==
    [][InstructionsChangeOnlyFor({"<listcomp>", "<setcomp>", "<dictcomp>",
                                  "<genexpr>"})]_vars

\* C18, amended: making the node of a nested unit named as a list, set or
\* dict comprehension replaces exactly the first and the last instruction of
\* that unit by NOP; the unit of a generator expression keeps all its
\* instructions, and nothing else changes an instruction of any unit.
C18_OnlyComprehensionsPatched ==
    [][InstructionsChangeOnlyFor({"<listcomp>", "<setcomp>", "<dictcomp>"})]_vars

\* The node of a list comprehension has just been pushed: its unit starts and
\* ends with NOP and keeps the FOR_ITER in between.
C18_Witness ==
    /\ status = "running"
    /\ Top.stack._stack # <<>>
    /\ Last(Top.stack._stack).kind = "PyListComp"
    /\ LET c == heap[Last(Top.stack._stack).args[1].id]
       IN  /\ c.instr_seq[1].opcode = NOP
           /\ Last(c.instr_seq).opcode = NOP
           /\ c.instr_seq # Decoded(c)
           /\ c.instr_seq[3].opcode = FOR_ITER

----------------------------------------------------------------------------
(* Claims about decorators, checked under Spec.                            *)

\* The DefStatement of the unit, and where its def line is in rendered.
TheDef == heap[CHOOSE id \in DOMAIN heap : heap[id].kind = "DefStatement"]
DefLine == CHOOSE k \in DOMAIN rendered : Head(rendered[k].text \o <<"">>) = "def"

\* The lines of rendered that start with @.
DecoratorLines ==
    { k \in DOMAIN rendered : Head(rendered[k].text \o <<"">>) = "@" }

\* C17 as stated: the rendering of a definition has one @-line for each
\* decorator attached to it, all above the def line, and the decorator
\* attached last is on the line just above the def line.
C17_LastAttachedNearestDef ==
    rendered # <<>> =>
        LET decorators == TheDef.decorators
            n == Len(decorators)
        IN  /\ DecoratorLines = (DefLine - n)..(DefLine - 1)
            /\ n > 0 => rendered[DefLine - 1].text = <<"@">> \o Str(decorators[n])

\* C17, amended: the rendering of a definition has one @-line for each
\* decorator attached to it, all above the def line; the decorator attached
\* first is on the line just above the def line, each later one on the line
\* above the one before, the one attached last on the topmost.
C17_FirstAttachedNearestDef ==
    rendered # <<>> =>
        LET decorators == TheDef.decorators
            n == Len(decorators)
        IN  /\ DecoratorLines = (DefLine - n)..(DefLine - 1)
            /\ \A j \in 1..n :
                   rendered[DefLine - j].text = <<"@">> \o Str(decorators[j])

\* The unit of `@d @e def f(): pass` is rendered: e was attached first, then
\* d, and the text is that of the source.
C17_Witness ==
    /\ rendered # <<>>
    /\ [j \in DOMAIN TheDef.decorators |-> TheDef.decorators[j].name] = <<"e", "d">>
    /\ [k \in DOMAIN rendered |-> rendered[k].text]
          = << <<>>, <<"@", "d">>, <<"@", "e">>, <<"def", "f", "(", ")", ":">>,
               <<"pass">>, <<>> >>

----------------------------------------------------------------------------
(* Claims about closure variables, checked under Spec.                     *)

\* How often name occurs in the declared-nonlocal list of c.
TimesNonlocal(c, name) ==
    Cardinality({ i \in DOMAIN c.nonlocals : c.nonlocals[i].name = name })

\* C21: STORE_DEREF and DELETE_DEREF of index i leave the name declared
\* nonlocal in the unit when i is a free variable, add no declaration when i
\* is a cell variable of the unit, and in both cases go on to produce the
\* store or the del statement: the reconstruction does not fail there.
C21_DerefDeclaresFreeOnly ==
    [][(Dispatch(STORE_DEREF) \/ Dispatch(DELETE_DEREF)) =>
          LET i == Arg(code, Top.addr)
              name == code.derefnames[i + 1].name
          IN  /\ status' = "running"
              /\ IF i >= Len(code.code_obj.co_cellvars)
                 THEN TimesNonlocal(code', name) = 1
                 ELSE code'.nonlocals = code.nonlocals]_vars

----------------------------------------------------------------------------
(* Claims about conditions made of conditional jumps, checked under Spec.  *)

\* The units that are one if-else statement whose condition is a sequence of
\* conditional jumps over the operands a, b, c.
JumpConditionUnits ==
    {"if_and", "if_or", "if_else", "if_and_not", "if_not_and_not", "if_not_and",
     "if_or_not", "if_or_2", "if_or_and", "if_and_or"}

\* The truth assignments to the operands.
TruthAssignments == [{"a", "b", "c"} -> BOOLEAN]

\* The truth value of a condition under an assignment.
RECURSIVE Truth(_, _)
Truth(x, env) ==
    CASE x.kind = "PyName" -> env[x.name]
      [] x.kind = "PyNot" -> ~Truth(x.args[1], env)
      [] x.kind = "PyBooleanAnd" -> Truth(x.args[1], env) /\ Truth(x.args[2], env)
      [] x.kind = "PyBooleanOr" -> Truth(x.args[1], env) \/ Truth(x.args[2], env)

\* The instruction after the last conditional jump of the unit (where the
\* true branch starts) and the instruction after its JUMP_FORWARD (the else
\* target).
TrueBranchStart(c) ==
    CHOOSE i \in 1..(Len(c.instr_seq) - 1) :
        /\ Opcode(c, i - 1) \in pop_jump_if_opcodes
        /\ \A k \in i..(Len(c.instr_seq) - 1) : Opcode(c, k) \notin pop_jump_if_opcodes
ElseTarget(c) ==
    CHOOSE i \in 1..(Len(c.instr_seq) - 1) : Opcode(c, i - 1) = JUMP_FORWARD

\* Executing the unit from instruction i with the values vals on the stack:
\* TRUE when it gets to the true branch, FALSE when it gets to the else target.
RECURSIVE FallsIntoTrueBranch(_, _, _, _)
FallsIntoTrueBranch(c, i, vals, env) ==
    IF i = TrueBranchStart(c) THEN TRUE
    ELSE IF i = ElseTarget(c) THEN FALSE
    ELSE IF Opcode(c, i) = LOAD_FAST
    THEN FallsIntoTrueBranch(c, i + 1,
                             Append(vals, env[c.varnames[Arg(c, i) + 1].name]), env)
    ELSE \* POP_JUMP_IF_TRUE, POP_JUMP_IF_FALSE
         FallsIntoTrueBranch(c,
                             IF Last(vals) = (Opcode(c, i) = POP_JUMP_IF_TRUE)
                             THEN c.instr_map[Arg(c, i)] ELSE i + 1,
                             Front(vals), env)

\* C22: the condition of an if statement reconstructed from conditional jumps
\* is true under a truth assignment to the operands exactly when executing
\* the jumps under that assignment falls through into the true branch.
C22_ConditionEquivalent ==
    (status = "returned" /\ code.name \in JumpConditionUnits) =>
        /\ result # <<>>
        /\ result[1].kind = "IfStatement"
        /\ \A env \in TruthAssignments :
               Truth(result[1].exprs[1], env) = FallsIntoTrueBranch(code, 0, <<>>, env)

\* The operands of a condition, from left to right.
RECURSIVE Operands(_)
Operands(x) ==
    IF x.args = <<>> THEN <<x.name>>
    ELSE IF Len(x.args) = 1 THEN Operands(x.args[1])
    ELSE Operands(x.args[1]) \o Operands(x.args[2])

\* The operands of the conditions of pending entries, bottom entry first.
RECURSIVE PendingOperands(_)
PendingOperands(entries) ==
    IF entries = <<>> THEN <<>>
    ELSE Operands(Head(entries).cond) \o PendingOperands(Tail(entries))

\* The place of a jump target in the unit, the absent target being the end.
TargetIndex(a) == IF a = None THEN Len(code.instr_seq) ELSE a

\* A conditional jump that is not an else-jump is handled without failure:
\* all it does is push_popjump.
ShortCircuitTest ==
    /\ Dispatch(POP_JUMP_IF_FALSE) \/ Dispatch(POP_JUMP_IF_TRUE)
    /\ Top.addr \notin code.else_jumps
    /\ status' = "running"

\* The pending entries before and after such a step, and the operand tested.
PendingBefore == Top.popjump_stack
PendingAfter == frames'[Len(frames)].popjump_stack
Tested == Last(Top.stack._stack)

\* C23 as stated: push_popjump pops and combines the top pending entries
\* while the new target is at or before their targets, stops at the first
\* entry whose target is before the new target, and pushes the combined
\* condition with the new target.
C23_MergesWhileAtOrBefore ==
    [][ShortCircuitTest =>
          LET n == Len(PendingAfter) - 1
              target == TargetIndex(Last(PendingAfter).addr)
          IN  /\ n \in 0..Len(PendingBefore)
              /\ SubSeq(PendingAfter, 1, n) = SubSeq(PendingBefore, 1, n)
              /\ \A k \in (n + 1)..Len(PendingBefore) :
                     target <= TargetIndex(PendingBefore[k].addr)
              /\ n > 0 => target > TargetIndex(PendingBefore[n].addr)
              /\ Operands(Last(PendingAfter).cond) =
                     PendingOperands(SubSeq(PendingBefore, n + 1, Len(PendingBefore)))
                     \o Operands(Tested)]_vars

\* C23, amended: push_popjump pops and combines the top pending entries while
\* the new target is after their targets, stops at the first entry whose
\* target is at or after the new target, and pushes the combined condition
\* with the new target.
C23_MergesWhileAfter ==
    [][ShortCircuitTest =>
          LET n == Len(PendingAfter) - 1
              target == TargetIndex(Last(PendingAfter).addr)
          IN  /\ n \in 0..Len(PendingBefore)
              /\ SubSeq(PendingAfter, 1, n) = SubSeq(PendingBefore, 1, n)
              /\ \A k \in (n + 1)..Len(PendingBefore) :
                     target > TargetIndex(PendingBefore[k].addr)
              /\ n > 0 => target <= TargetIndex(PendingBefore[n].addr)
              /\ Operands(Last(PendingAfter).cond) =
                     PendingOperands(SubSeq(PendingBefore, n + 1, Len(PendingBefore)))
                     \o Operands(Tested)]_vars

\* In `(a or b) and c` the test of b, whose target is after the target of
\* the pending test of a, has been combined with it into one entry.
C23_Witness ==
    /\ status = "running"
    /\ code.name = "if_or_and"
    /\ Len(Top.popjump_stack) = 1
    /\ Top.popjump_stack[1].cond.kind = "PyBooleanOr"
    /\ Operands(Top.popjump_stack[1].cond) = <<"a", "b">>

\* STORE_FAST stores a value whose store() is that of PyExpr, without failure.
StoresExpression ==
    /\ Dispatch(STORE_FAST)
    /\ Top.stack._stack # <<>>
    /\ IsPyExpr(Last(Top.stack._stack))
    /\ status' = "running"

\* The value stored, the target, and whether the entries below the value on
\* the stack hold the same node again.
Stored == Last(Top.stack._stack)
Target == code.varnames[Arg(code, Top.addr) + 1]
StillReferenced ==
    \E k \in 1..(Len(Top.stack._stack) - 1) : Top.stack._stack[k].id = Stored.id

\* The instructions of the unit with the given opcode, in address order.
InstructionsOf(opcode) == SelectSeq(code.instr_seq, LAMBDA ins : ins.opcode = opcode)

\* C24: a store of an ordinary expression whose node is still on the stack
\* only appends its target to the assignment chain; a store of a node no
\* longer on the stack appends one assignment statement, the targets of the
\* chain in store order, then its own target, then the value, and empties the
\* chain.  n - 1 duplications of a value followed by n stores give exactly
\* one statement with n targets.
C24_ChainedAssignment ==
    /\ [][StoresExpression =>
            LET after == frames'[Len(frames)]
            IN  IF StillReferenced
                THEN /\ after.suite = Top.suite
                     /\ after.assignment_chain = Append(Top.assignment_chain, Target)
                ELSE /\ after.assignment_chain = <<>>
                     /\ Front(after.suite) = Top.suite
                     /\ Last(after.suite).kind = "AssignStatement"
                     /\ Last(after.suite).exprs =
                            Top.assignment_chain \o <<Target, Stored>>]_vars
    /\ []((status = "returned" /\ code.name = "chain") =>
            LET stores == InstructionsOf(STORE_FAST)
                loaded == InstructionsOf(LOAD_FAST)[1]
            IN  /\ Len(stores) = Len(InstructionsOf(DUP_TOP)) + 1
                /\ result = <<AssignStatement(
                                 [k \in 1..Len(stores) |-> code.varnames[stores[k].arg + 1]]
                                 \o <<code.varnames[loaded.arg + 1]>>)>>)

\* The longest chain has been reconstructed: one statement, MaxTargets targets.
C24_Witness ==
    /\ status = "returned"
    /\ code.name = "chain"
    /\ Len(result) = 1
    /\ Len(result[1].exprs) = MaxTargets + 1

\* The statement `target = u`.
AssignsU(target) ==
    AssignStatement(<<code.varnames[CHOOSE i \in DOMAIN code.varnames :
                                        code.varnames[i].name = target],
                      code.varnames[CHOOSE i \in DOMAIN code.varnames :
                                        code.varnames[i].name = "u"]>>)

\* C25: SETUP_WITH gives exactly one with statement, made of the expression
\* popped and the body, with the target of the store that follows
\* SETUP_WITH as its name, and without a name when POP_TOP follows instead,
\* the POP_TOP adding no statement to the body; the statement after the with
\* block is the one that starts two instructions after WITH_CLEANUP.
C25_OneWithStatement ==
    (status \notin {"idle", "running"} /\ code.name \in {"with_as", "with"}) =>
        /\ status = "returned"
        /\ Len(result) = 2
        /\ result[1].kind = "WithStatement"
        /\ result[1].exprs[1].name = "a"
        /\ IF code.name = "with_as"
           THEN Len(result[1].exprs) = 2 /\ result[1].exprs[2].name = "b"
           ELSE Len(result[1].exprs) = 1
        /\ result[1].suites = <<<<AssignsU("x")>>>>
        /\ result[2] = AssignsU("y")

\* C25 for the with statement that binds a name.
C25_WithAsOnly ==
    (code.name = "with" /\ status # "idle") \/ C25_OneWithStatement

\* The argument of the RAISE_VARARGS of the unit.
RaiseArgc == InstructionsOf(RAISE_VARARGS)[1].arg

\* C26: RAISE_VARARGS with argument 0, 1 or 2 pops that many values and
\* appends exactly one raise statement with that many operands; with any
\* other argument it fails and appends nothing.
C26_RaiseArity ==
    (status \notin {"idle", "running"} /\ code.name = "raise") =>
        IF RaiseArgc \in 0..2
        THEN /\ status = "returned"
             /\ Len(result) = 1
             /\ result[1].kind = "SimpleStatement"
             /\ result[1].text =
                    <<"raise">> \o [i \in 1..RaiseArgc |->
                                      code.varnames[code.instr_seq[i].arg + 1].name]
        ELSE status = "raised"

\* C26 without the raise of two operands.
C26_RaiseArityButTwo ==
    (code.name = "raise" /\ status # "idle" /\ RaiseArgc = 2) \/ C26_RaiseArity

\* Some SETUP_EXCEPT handler is in its scan of the except clauses.
Scanning ==
    /\ status = "running"
    /\ \E i \in DOMAIN frames :
          frames[i].wait.kind \in {"SETUP_EXCEPT while", "SETUP_EXCEPT d_except",
                                   "SETUP_EXCEPT bare"}

\* The scan is at the start of a clause whose first opcode is none of
\* END_FINALLY, DUP_TOP and POP_TOP.
ScanAtOther ==
    /\ status = "running"
    /\ Top.wait.kind = "SETUP_EXCEPT while"
    /\ IsAddr(Top.wait.start_except)
    /\ Opcode(code, Top.wait.start_except) \notin {END_FINALLY, DUP_TOP, POP_TOP}

\* C27: the scan of the except clauses in SETUP_EXCEPT always ends, at
\* END_FINALLY or by a failure; at a clause that starts with neither DUP_TOP
\* nor POP_TOP the reconstruction of the unit fails.
C27_ScanEnds ==
    /\ Scanning ~> ~Scanning
    /\ ScanAtOther ~> (status = "raised")

\* C27 for the units in which every clause starts as a compiled one does.
C27_CompiledScanEnds ==
    (Scanning /\ code.name # "try_other") ~> ~Scanning

\* The places in instr_seq of the exception matches of the unit, in the order
\* of the unit: the type matched is loaded just before, and the instruction
\* three places after is the STORE_FAST of the name when the clause has one.
MatchPlaces ==
    LET places == { i \in DOMAIN code.instr_seq :
                      code.instr_seq[i].opcode = COMPARE_OP /\ code.instr_seq[i].arg = 10 }
        RECURSIVE InOrder(_)
        InOrder(rest) ==
            IF rest = {} THEN <<>>
            ELSE LET least == CHOOSE i \in rest : \A j \in rest : i <= j
                 IN  <<least>> \o InOrder(rest \ {least})
    IN  InOrder(places)

MatchIsNamed(i) == code.instr_seq[i + 3].opcode = STORE_FAST

\* What the typed clauses of the unit hold, read off its instructions: the
\* form of each clause, and the types and names in order.
MatchForms ==
    [k \in DOMAIN MatchPlaces |->
        IF MatchIsNamed(MatchPlaces[k]) THEN "except {} as {}:" ELSE "except {}:"]

RECURSIVE MatchExprs(_)
MatchExprs(k) ==
    IF k > Len(MatchPlaces) THEN <<>>
    ELSE LET i == MatchPlaces[k]
         IN  <<code.varnames[code.instr_seq[i - 1].arg + 1]>>
             \o (IF MatchIsNamed(i) THEN <<code.varnames[code.instr_seq[i + 3].arg + 1]>>
                 ELSE <<>>)
             \o MatchExprs(k + 1)

\* C28: the clauses of a try statement are in the order of their matches in
\* the unit; at most one clause is bare and it is the last one; a name that
\* a store binds is the name of the clause matched at that time and of no
\* other clause.
C28_ClausesInOrder ==
    (status = "returned" /\ code.name = "try") =>
        /\ result # <<>>
        /\ result[1].kind = "TryStatement"
        /\ LET forms == result[1].text
               n == Len(MatchPlaces)
           IN  /\ Len(forms) \in {n, n + 1}
               /\ \A k \in DOMAIN forms : forms[k] = "except:" <=> k = n + 1
               /\ SubSeq(forms, 1, n) = MatchForms
               /\ result[1].exprs = MatchExprs(1)
               /\ Len(result[1].suites) = Len(forms) + 1

\* A try statement with MaxClauses typed clauses, the first without a name
\* and the last with one, and a bare clause has been reconstructed.
C28_Witness ==
    /\ status = "returned"
    /\ code.name = "try"
    /\ result # <<>>
    /\ result[1].kind = "TryStatement"
    /\ Len(result[1].text) = MaxClauses + 1
    /\ result[1].text[1] = "except {}:"
    /\ result[1].text[MaxClauses] = "except {} as {}:"
    /\ result[1].text[MaxClauses + 1] = "except:"

\* Some statement of the suite, or of a suite inside it, is of class kind.
RECURSIVE HasStatement(_, _)
HasStatement(suite, kind) ==
    \E i \in DOMAIN suite :
        \/ suite[i].kind = kind
        \/ \E j \in DOMAIN suite[i].suites : HasStatement(suite[i].suites[j], kind)

\* The conditional jump at place i of instr_seq lies in a SETUP_LOOP region
\* that its target, a POP_BLOCK, closes: the region ends right after the
\* POP_BLOCK.
ExitsLoop(i) ==
    LET target == code.instr_map[code.instr_seq[i].arg] + 1
    IN  /\ code.instr_seq[target].opcode = POP_BLOCK
        /\ \E k \in 1..(i - 1) :
               /\ code.instr_seq[k].opcode = SETUP_LOOP
               /\ code.instr_seq[k + 1].addr + code.instr_seq[k].arg
                      = code.instr_seq[target].addr + 1

\* C29: a while statement is reconstructed only in a unit where some
\* conditional jump exits a SETUP_LOOP region through its POP_BLOCK; the if
\* statement that ends the body of a with or of a try, whose conditional
\* jump goes to the POP_BLOCK that ends the body, comes out as an if
\* statement.
C29_WhileOnlyInLoops ==
    status = "returned" =>
        /\ HasStatement(result, "WhileStatement") =>
               \E i \in DOMAIN code.instr_seq :
                   /\ code.instr_seq[i].opcode \in {POP_JUMP_IF_FALSE, POP_JUMP_IF_TRUE}
                   /\ ExitsLoop(i)
        /\ code.name \in {"with_if", "try_if"} =>
               /\ HasStatement(result, "IfStatement")
               /\ ~HasStatement(result, "WhileStatement")

\* C29 without the units whose with or try body ends in an if statement.
C29_WhileInLoopUnits ==
    (status = "returned" /\ code.name \in {"with_if", "try_if"}) \/ C29_WhileOnlyInLoops

\* In this step a handler returns to the loop of run(): the handler that
\* run() called in this step, or one that waited for a sub-decompiler.
HandlerReturns ==
    /\ status = "running"
    /\ status' = "running"
    /\ InRun(frames'[Len(frames')])
    /\ \/ Len(frames') = Len(frames) /\ (Running(Top) \/ ~InRun(Top))
       \/ Len(frames') = Len(frames) - 1

\* C30: a handler that returns either ends the run or leaves the address
\* of the run strictly after the instruction it handled, so that run()
\* handles no instruction twice and comes to an end.
C30_HandlersAdvance ==
    [][HandlerReturns =>
          LET k == Len(frames')
          IN  \/ frames'[k].broke
              \/ ~IsAddr(frames'[k].addr)
              \/ frames'[k].addr > frames[k].addr]_vars

\* C30 on the units that hold no jump to an instruction at or before it.
C30_ForwardUnitsAdvance ==
    [][(HandlerReturns /\ code.name # "jump_to_self") =>
          LET k == Len(frames')
          IN  \/ frames'[k].broke
              \/ ~IsAddr(frames'[k].addr)
              \/ frames'[k].addr > frames[k].addr]_vars

====
